---- MODULE Spec2Model ----
(***************************************************************************)
(* Organization README badge generator: the paginated GraphQL fetchers,    *)
(* the pull-request window aggregator, the batch orchestrator, the README  *)
(* patcher and the generateBadges run, as state machines.                  *)
(*                                                                         *)
(* Granularity: JavaScript runs every continuation to completion, so one   *)
(* action is the code between two awaits.  A transport request is sent in  *)
(* the action that reaches the await; the transport's answer (resolve or   *)
(* reject) is the next action of that call.                                *)
(***************************************************************************)
EXTENDS Integers, Sequences, FiniteSets, TLC

(* ------------------------------ bounds -------------------------------- *)
\* longest repository list the organization holds
MaxRepos == 3
\* longest pull-request list a repository holds in the single-fetch runs
MaxPRs == 2

(* ------------------------- values of the model ------------------------ *)
\* `let endCursor;` : the cursor of the first request
UNDEFINED == -1
\* `endCursor: null` : the cursor GitHub returns with an empty page
NULLCURSOR == -2

RepoNames == {"repo1", "repo2", "repo3"}

\* An ISO timestamp 'YYYY-MM-DDThh:mm:ssZ' is <<day, tick>>; a date-only
\* string 'YYYY-MM-DD' is <<day>>; the JavaScript null is <<>>.
Ticks == {0, 1}
TicksPerDay == Cardinality(Ticks)
NULL == <<>>
Timestamps == {<<1, 1>>, <<2, 0>>, <<2, 1>>}
Cutoffs == {<<2, 0>>, <<2, 1>>, <<2>>}
PRStates == {"OPEN", "MERGED", "CLOSED"}
PullRequests ==
  [createdAt : Timestamps, mergedAt : Timestamps \cup {NULL}, state : PRStates]

TransportErrors == {"GraphQL Error", "Bad credentials"}

SeqsUpTo(S, n) == UNION {[1..k -> S] : k \in 0..n}

\* the call ids of the aggregator calls: the index of the repository in the list
CallIds == 1..MaxRepos

VARIABLES
  op,            \* the operation this run exercises
  orgRepos,      \* server: the organization's repository names, in server order
  repoPRs,       \* server: repository name -> its pull requests, in server order
  prFilterDate,  \* the cutoff handed to the aggregator
  count,         \* getRepositoryCount: its one call
  fetch,         \* getRepositories: its one call
  agg,           \* getPullRequestsCount: call id -> call
  repos,         \* processPullRequestsInBatches: the repository list it is given
  batchSize,     \* processPullRequestsInBatches: its batchSize argument
  orch,          \* processPullRequestsInBatches: its one call
  badgeReferences, \* updateReadmeWithBadges: the text to put between the markers
  remote,        \* the repository behind the contents API: path -> file
  otherCommits,  \* how many commits other writers have made to the README
  cf,            \* commitFile: its one call
  patch,         \* updateReadmeWithBadges: its one call
  io,            \* every contents-API request, in the order the backend answered
  log,           \* every core.warning / core.error / process.exit / core.setOutput
  inputs,        \* generateBadges: its configuration and environment
  gen,           \* generateBadges and the top-level runner: the one run
  files,         \* the local file system: path -> badge file
  mjs,           \* src/index.mjs: the run of the packaged entry program
  env,           \* the command line (argv) and the action inputs (core.getInput)
  san            \* sanitizeFilename: a label, its file name, and that one sanitized again

\* what no function assigns: arguments, configuration and the server's data
cfgVars == <<op, orgRepos, repoPRs, prFilterDate, repos, batchSize, inputs, env>>
envVars == <<cfgVars, mjs, san>>
fetchSide == <<count, fetch, agg, orch>>
patchSide == <<remote, otherCommits, cf, patch, io>>
\* what only generateBadges assigns
genSide == <<gen, files, badgeReferences>>
vars == <<envVars, fetchSide, patchSide, genSide, log>>
\* what the actions of one component leave alone
frame_count == <<envVars, fetch, agg, orch, patchSide, genSide, log>>
frame_fetch == <<envVars, count, agg, orch, patchSide, genSide, log>>
frame_agg == <<envVars, count, fetch, orch, patchSide, genSide, log>>
frame_orch == <<envVars, count, fetch, patchSide, genSide, log>>

(* ----------------------------- the server ----------------------------- *)
\* The position a cursor stands for: undefined and null both mean the start.
CursorPos(after) == IF after \in {UNDEFINED, NULLCURSOR} THEN 0 ELSE after

\* The page sizes the server may answer with: everything that is left may be
\* cut anywhere, a page is empty only when nothing is left.
PageSizes(list, after) ==
  IF CursorPos(after) >= Len(list) THEN {0} ELSE 1..(Len(list) - CursorPos(after))

\* The connection page of k nodes after the cursor: nodes and pageInfo.
ServerPage(list, after, k) ==
  [nodes |-> SubSeq(list, CursorPos(after) + 1, CursorPos(after) + k),
   pageInfo |-> [endCursor |-> IF k = 0 THEN NULLCURSOR ELSE CursorPos(after) + k,
                 hasNextPage |-> CursorPos(after) + k < Len(list)]]

(* ----------------------------- pure helpers --------------------------- *)
\* new Date(x).getTime(): null converts to the epoch, a date-only string to
\* UTC midnight of its day.
Date(x) ==
  IF x = NULL THEN 0
  ELSE IF Len(x) = 1 THEN x[1] * TicksPerDay
  ELSE x[1] * TicksPerDay + x[2]

\* a variant that compares with > : a pull request created at the cutoff is left out
openPullRequests_strict(pullRequests, date) ==
  SelectSeq(pullRequests, LAMBDA pr : Date(pr.createdAt) > Date(date))

\* pullRequests.filter(pr => new Date(pr.createdAt) >= new Date(prFilterDate))
openPullRequests(pullRequests, date) ==
  SelectSeq(pullRequests, LAMBDA pr : Date(pr.createdAt) >= Date(date))

\* pullRequests.filter(pr => pr.state === 'MERGED' &&
\*                           new Date(pr.mergedAt) >= new Date(prFilterDate))
mergedPRs(pullRequests, date) ==
  SelectSeq(pullRequests,
            LAMBDA pr : pr.state = "MERGED" /\ Date(pr.mergedAt) >= Date(date))

(* -------------------------- getRepositoryCount ------------------------ *)
IdleCount == [pc |-> "idle", requests |-> 0, result |-> <<>>, error |-> <<>>,
              rejections |-> <<>>]

\* the call: one request, then await
getRepositoryCount_call ==
  /\ op = "getRepositoryCount"
  /\ count.pc = "idle"
  /\ count' = [count EXCEPT !.pc = "await", !.requests = 1]
  /\ UNCHANGED frame_count

\* the transport resolves: return orgData.repositories.totalCount
getRepositoryCount_resolve ==
  /\ count.pc = "await"
  /\ count' = [count EXCEPT !.pc = "returned", !.result = <<Len(orgRepos)>>]
  /\ UNCHANGED frame_count

\* the transport rejects with e: there is no try/catch, the call rejects with e
CountOnReject(c, e) ==
  [c EXCEPT !.pc = "rejected", !.error = <<e>>,
            !.rejections = Append(@, e)]

getRepositoryCount_reject(e) ==
  /\ count.pc = "await"
  /\ count' = CountOnReject(count, e)
  /\ UNCHANGED frame_count

(* ---------------------------- getRepositories ------------------------- *)
\* requests: the `after` value of every request sent; pages: the nodes of
\* every page received; rejections: the errors the transport rejected with.
IdleFetch == [pc |-> "idle", endCursor |-> UNDEFINED, hasNextPage |-> TRUE,
              repositories |-> <<>>, requests |-> <<>>, pages |-> <<>>,
              flags |-> <<>>, result |-> <<>>, error |-> <<>>,
              rejections |-> <<>>]

\* let endCursor; let hasNextPage = true; const repositories = [];
\* first iteration of the loop up to the await: the first request is sent
FetchOnCall(f) ==
  [f EXCEPT !.pc = "await", !.endCursor = UNDEFINED, !.hasNextPage = TRUE,
            !.repositories = <<>>, !.requests = <<UNDEFINED>>]

\* a variant that inserts the new names in front of the list (unshift)
FetchPush_unshift(repositories, nodes) == nodes \o repositories

\* repositories.push(...nodes.map(repo => repo.name))
FetchPush(repositories, nodes) == repositories \o nodes

\* a variant that sends the cursor one position further than the server gave
FetchNextCursor_skip(f, page) == page.pageInfo.endCursor + 1

\* the cursor the next request is sent with: pageInfo.endCursor
FetchNextCursor(f, page) == page.pageInfo.endCursor

\* the continuation after the await: push the names, take pageInfo, then either
\* send the next request (hasNextPage) or return the list
FetchOnResolve(f, page) ==
  LET pushed == FetchPush(f.repositories, page.nodes)
      more == page.pageInfo.hasNextPage
      cursor == FetchNextCursor(f, page)
  IN [f EXCEPT !.repositories = pushed,
               !.hasNextPage = more,
               !.endCursor = cursor,
               !.pages = Append(@, page.nodes),
               !.flags = Append(@, more),
               !.requests = IF more THEN Append(@, cursor) ELSE @,
               !.pc = IF more THEN "await" ELSE "returned",
               !.result = IF more THEN <<>> ELSE <<pushed>>]

\* a variant that swallows the error and returns the names collected so far
FetchOnReject_partial(f, e) ==
  [f EXCEPT !.pc = "returned", !.result = <<f.repositories>>,
            !.rejections = Append(@, e)]

\* the await throws e out of the loop: no catch, the call rejects with e
FetchOnReject(f, e) ==
  [f EXCEPT !.pc = "rejected", !.error = <<e>>, !.rejections = Append(@, e)]

getRepositories_call ==
  /\ op = "getRepositories"
  /\ fetch.pc = "idle"
  /\ fetch' = FetchOnCall(fetch)
  /\ UNCHANGED frame_fetch

getRepositories_resolve(k) ==
  /\ fetch.pc = "await"
  /\ k \in PageSizes(orgRepos, fetch.requests[Len(fetch.requests)])
  /\ fetch' = FetchOnResolve(fetch,
                 ServerPage(orgRepos, fetch.requests[Len(fetch.requests)], k))
  /\ UNCHANGED frame_fetch

getRepositories_reject(e) ==
  /\ fetch.pc = "await"
  /\ fetch' = FetchOnReject(fetch, e)
  /\ UNCHANGED frame_fetch

(* ---------------------- processPullRequestsInBatches: state ------------ *)
\* batchSize = 10
DefaultBatchSize == 10

\* batch: the call ids of the batch being awaited; groups: every batch started
IdleOrch == [pc |-> "idle", i |-> 0, batch |-> <<>>,
             totalOpenPRs |-> 0, totalMergedPRs |-> 0, groups |-> <<>>,
             result |-> <<>>, error |-> <<>>]

(* -------------------------- getPullRequestsCount ---------------------- *)
IdleAgg == [pc |-> "idle", repo |-> "", date |-> NULL,
            endCursor |-> UNDEFINED, hasNextPage |-> TRUE,
            total |-> 0, merged |-> 0, requests |-> <<>>, pages |-> <<>>,
            result |-> <<>>, error |-> <<>>, rejections |-> <<>>]

\* let endCursor; let hasNextPage = true; let total = 0; let merged = 0;
\* first iteration up to the await: the first request is sent
AggOnCall(repo, date) ==
  [IdleAgg EXCEPT !.pc = "await", !.repo = repo, !.date = date,
                  !.requests = <<UNDEFINED>>]

\* total += openPullRequests.length
AggTotal(total, pullRequests, date) ==
  total + Len(openPullRequests(pullRequests, date))

\* merged += mergedPRs.length
AggMerged(merged, pullRequests, date) ==
  merged + Len(mergedPRs(pullRequests, date))

\* a variant that sends the cursor of the previous iteration again
AggNextCursor_stale(a, page) == a.endCursor

\* the cursor the next request is sent with: pageInfo.endCursor
AggNextCursor(a, page) == page.pageInfo.endCursor

\* the continuation after the await: count the page, take pageInfo, then
\* either send the next request or return {total, merged}
AggOnResolve(a, page) ==
  LET t == AggTotal(a.total, page.nodes, a.date)
      m == AggMerged(a.merged, page.nodes, a.date)
      more == page.pageInfo.hasNextPage
      cursor == AggNextCursor(a, page)
  IN [a EXCEPT !.total = t,
               !.merged = m,
               !.hasNextPage = more,
               !.endCursor = cursor,
               !.pages = Append(@, page.nodes),
               !.requests = IF more THEN Append(@, cursor) ELSE @,
               !.pc = IF more THEN "await" ELSE "returned",
               !.result = IF more THEN <<>> ELSE <<[total |-> t, merged |-> m]>>]

\* the await throws e out of the loop: no catch, the call rejects with e
AggOnReject(a, e) ==
  [a EXCEPT !.pc = "rejected", !.error = <<e>>, !.rejections = Append(@, e)]

\* The continuation of processPullRequestsInBatches is ready to run: its
\* Promise.all has settled (one call of the batch rejected, or all fulfilled).
\* Promise reactions are microtasks: they run before the next transport answer.
OrchReady ==
  /\ orch.pc = "await"
  /\ \/ \E i \in 1..Len(orch.batch) : agg[orch.batch[i]].pc = "rejected"
     \/ \A i \in 1..Len(orch.batch) : agg[orch.batch[i]].pc = "returned"

getPullRequestsCount_call ==
  /\ op = "getPullRequestsCount"
  /\ agg[1].pc = "idle"
  /\ agg' = [agg EXCEPT ![1] = AggOnCall("repo1", prFilterDate)]
  /\ UNCHANGED frame_agg

\* a variant with total and merged at module level, shared by the calls in
\* flight: a response is counted by every one of them
getPullRequestsCount_resolve_shared(c, k) ==
  /\ agg[c].pc = "await"
  /\ ~OrchReady
  /\ k \in PageSizes(repoPRs[agg[c].repo], agg[c].requests[Len(agg[c].requests)])
  /\ LET page == ServerPage(repoPRs[agg[c].repo],
                            agg[c].requests[Len(agg[c].requests)], k)
     IN agg' = [d \in CallIds |->
                  IF d = c THEN AggOnResolve(agg[c], page)
                  ELSE IF agg[d].pc = "await"
                  THEN [agg[d] EXCEPT !.total = AggTotal(@, page.nodes, agg[d].date),
                                      !.merged = AggMerged(@, page.nodes, agg[d].date)]
                  ELSE agg[d]]
  /\ UNCHANGED frame_agg

getPullRequestsCount_resolve(c, k) ==
  /\ agg[c].pc = "await"
  /\ ~OrchReady
  /\ k \in PageSizes(repoPRs[agg[c].repo], agg[c].requests[Len(agg[c].requests)])
  /\ agg' = [agg EXCEPT ![c] =
               AggOnResolve(@, ServerPage(repoPRs[agg[c].repo],
                                          agg[c].requests[Len(agg[c].requests)], k))]
  /\ UNCHANGED frame_agg

getPullRequestsCount_reject(c, e) ==
  /\ agg[c].pc = "await"
  /\ ~OrchReady
  /\ agg' = [agg EXCEPT ![c] = AggOnReject(@, e)]
  /\ UNCHANGED frame_agg

(* ---------------------- processPullRequestsInBatches ------------------- *)
Min(a, b) == IF a < b THEN a ELSE b

Range(seq) == {seq[i] : i \in 1..Len(seq)}

\* a variant that forgets the end of the slice: repos.slice(i)
BatchOf_noEnd(i, b, n) == [j \in 1..(n - i) |-> i + j]

\* a variant that takes one repository too many: repos.slice(i, i + batchSize + 1)
BatchOf_offByOne(i, b, n) == [j \in 1..(Min(i + b + 1, n) - i) |-> i + j]

\* repos.slice(i, i + batchSize): the call ids (list indices) of the batch
BatchOf(i, b, n) == [j \in 1..(Min(i + b, n) - i) |-> i + j]

\* a variant that assigns instead of accumulating
OrchAdd_assign(sum, x) == x

\* totalOpenPRs += total; totalMergedPRs += merged
OrchAdd(sum, x) == sum + x

\* for (const { total, merged } of results): the results are taken in batch order
RECURSIVE OrchAggregate(_, _, _)
OrchAggregate(o, aggs, ids) ==
  IF ids = <<>> THEN o
  ELSE OrchAggregate(
         [o EXCEPT !.totalOpenPRs = OrchAdd(@, aggs[Head(ids)].result[1].total),
                   !.totalMergedPRs = OrchAdd(@, aggs[Head(ids)].result[1].merged)],
         aggs, Tail(ids))

\* i += batchSize
OrchAdvance(i, b) == i + b

\* The loop head `i < repos.length` and what follows it up to the next await or
\* the return: either the calls of the next batch are all started (each runs to
\* its first await, so its first request is sent) and Promise.all is awaited, or
\* the totals are returned.  Yields the orchestrator and the calls.
OrchLoop(o, aggs, rs, date, b) ==
  IF o.i < Len(rs)
  THEN LET ids == BatchOf(o.i, b, Len(rs)) IN
       [orch |-> [o EXCEPT !.pc = "await", !.batch = ids,
                           !.groups = Append(@, ids)],
        agg |-> [c \in CallIds |->
                   IF c \in Range(ids) THEN AggOnCall(rs[c], date) ELSE aggs[c]]]
  ELSE [orch |-> [o EXCEPT !.pc = "returned", !.batch = <<>>,
                           !.result = <<[totalOpenPRs |-> o.totalOpenPRs,
                                         totalMergedPRs |-> o.totalMergedPRs]>>],
        agg |-> aggs]

\* a variant that swallows the rejection and returns the totals summed so far
OrchOnThrow_partial(o, e) ==
  [o EXCEPT !.pc = "returned", !.batch = <<>>,
            !.result = <<[totalOpenPRs |-> o.totalOpenPRs,
                          totalMergedPRs |-> o.totalMergedPRs]>>]

\* `await Promise.all(...)` throws e: there is no try/catch, the call rejects
OrchOnThrow(o, e) == [o EXCEPT !.pc = "rejected", !.error = <<e>>]

\* let totalOpenPRs = 0; let totalMergedPRs = 0; i = 0; then the loop head
processPullRequestsInBatches_call ==
  /\ op = "processPullRequestsInBatches"
  /\ orch.pc = "idle"
  /\ LET r == OrchLoop(IdleOrch, agg, repos, prFilterDate, batchSize) IN
       orch' = r.orch /\ agg' = r.agg
  /\ UNCHANGED frame_orch

\* the iterations of the loop that are followed: with batchSize >= 1 the loop
\* never has more than Len(repos) of them
MaxGroups == MaxRepos + 1

\* Promise.all fulfilled: sum the batch, advance i, then the loop head
processPullRequestsInBatches_resume ==
  /\ orch.pc = "await"
  /\ Len(orch.groups) <= MaxGroups
  /\ \A i \in 1..Len(orch.batch) : agg[orch.batch[i]].pc = "returned"
  /\ LET summed == OrchAggregate(orch, agg, orch.batch)
         r == OrchLoop([summed EXCEPT !.i = OrchAdvance(@, batchSize)],
                       agg, repos, prFilterDate, batchSize)
     IN orch' = r.orch /\ agg' = r.agg
  /\ UNCHANGED frame_orch

\* Promise.all rejected with the error of the call that rejected
processPullRequestsInBatches_throw ==
  /\ orch.pc = "await"
  /\ \E i \in 1..Len(orch.batch) :
       /\ agg[orch.batch[i]].pc = "rejected"
       /\ orch' = OrchOnThrow(orch, agg[orch.batch[i]].error[1])
  /\ UNCHANGED <<frame_orch, agg>>

(* ------------------------- the contents API -------------------------- *)
\* longest README the repository holds before the run
MaxDoc == 3
\* commits other writers make to the README during the run
MaxOtherCommits == 1

README == "profile/README.md"
BadgePaths == {"badges/total-repositories.svg", "badges/prs-created.svg",
               "badges/merged-prs.svg"}
Paths == {README} \cup BadgePaths

\* A README is a sequence of tokens: "S" is '<!-- start organization badges -->',
\* "E" is '<!-- end organization badges -->', "n" a newline, anything else text.
startMarker == "S"
endMarker == "E"
Absent == [exists |-> FALSE, content |-> <<>>]
File(content) == [exists |-> TRUE, content |-> content]

\* the blob sha GitHub derives from a file's content
Sha(content) == [blob |-> content]

\* Buffer.from(content).toString('base64') and Buffer.from(x, 'base64').toString('utf8')
ToBase64(content) == [base64 |-> content]
FromBase64(x) == x.base64

\* the failures of a contents-API request other than 404 / 409 / 422
RestErrors == {[status |-> 500], [status |-> 403]}
NotFound == [status |-> 404]

\* repos.getContent: the answer for a file
GetContentData(file) ==
  [content |-> ToBase64(file.content), sha |-> Sha(file.content)]

\* repos.createOrUpdateFileContents on a file: 200 update with the matching sha,
\* 201 create without sha, 409 on a sha that is not the file's, 422 on a missing sha
WriteStatus(file, params) ==
  IF file.exists
  THEN IF params.sha = <<>> THEN 422
       ELSE IF params.sha[1] = Sha(file.content) THEN 200 ELSE 409
  ELSE IF params.sha = <<>> THEN 201 ELSE 409

IoRead(path, status) ==
  [call |-> "getContent", path |-> path, sha |-> <<>>, content |-> <<>>,
   status |-> status, before |-> Absent]
IoWrite(path, params, status, before) ==
  [call |-> "createOrUpdateFileContents", path |-> path, sha |-> params.sha,
   content |-> FromBase64(params.content), status |-> status, before |-> before]

(* ------------------------------ getFileContent ------------------------ *)
\* a variant that treats every failure as "file absent"
GetFileContentCatch_any(error) == <<"null">>

\* catch (error): 404 gives null, anything else is thrown again
GetFileContentCatch(error) ==
  IF error.status = 404 THEN <<"null">> ELSE <<"throw", error>>

\* the value getFileContent resolves with for a getContent answer
GetFileContentValue(data) ==
  [content |-> FromBase64(data.content), sha |-> data.sha]

\* the answers repos.getContent may give for a file: its data, 404 when it does
\* not exist, or another failure
GetContentAnswers(file) ==
  (IF file.exists
   THEN {[ok |-> TRUE, data |-> GetContentData(file), error |-> [status |-> 200]]}
   ELSE {[ok |-> FALSE, data |-> GetContentData(Absent), error |-> NotFound]})
  \cup {[ok |-> FALSE, data |-> GetContentData(Absent), error |-> e] : e \in RestErrors}

\* getFileContent for an answer: <<"value", {content, sha}>>, <<"null">> or
\* <<"throw", error>>
GetFileContent(answer) ==
  IF answer.ok THEN <<"value", GetFileContentValue(answer.data)>>
  ELSE GetFileContentCatch(answer.error)

(* -------------------------------- commitFile -------------------------- *)
IdleCommit == [pc |-> "idle", path |-> "", content |-> <<>>, caller |-> "",
               params |-> [content |-> ToBase64(<<>>), sha |-> <<>>],
               result |-> <<>>, error |-> <<>>]

\* commitFile up to its first await: getFileContent sends the getContent request
CommitOnCall(path, content, caller) ==
  [IdleCommit EXCEPT !.pc = "read", !.path = path, !.content = content,
                     !.caller = caller]

\* a variant that never sends a sha
CommitParams_noSha(content, existingFile) ==
  [content |-> ToBase64(content), sha |-> <<>>]

\* params = { ..., content: base64 }; if (existingFile) params.sha = existingFile.sha
CommitParams(content, existingFile) ==
  [content |-> ToBase64(content),
   sha |-> IF existingFile = <<>> THEN <<>> ELSE <<existingFile[1].sha>>]

\* getFileContent answered with the file (or null): build params, send the write
CommitOnRead(c, existingFile) ==
  [c EXCEPT !.pc = "write", !.params = CommitParams(c.content, existingFile)]

\* catch (error) { core.error(...); throw error; }
CommitOnThrow(c, error) == [c EXCEPT !.pc = "rejected", !.error = <<error>>]

\* core.info(...); return data
CommitOnWritten(c, status) == [c EXCEPT !.pc = "returned", !.result = <<status>>]

\* the getContent request of commitFile is answered
commitFile_read ==
  /\ cf.pc = "read"
  /\ \E answer \in GetContentAnswers(remote[cf.path]) :
       LET existingFile == GetFileContent(answer) IN
       /\ io' = Append(io, IoRead(cf.path, answer.error.status))
       /\ IF existingFile[1] = "throw"
          THEN /\ cf' = CommitOnThrow(cf, existingFile[2])
               /\ log' = Append(log, "core.error")
          ELSE /\ cf' = CommitOnRead(cf, Tail(existingFile))
               /\ UNCHANGED log
  /\ UNCHANGED <<envVars, fetchSide, genSide, remote, otherCommits, patch>>

\* the createOrUpdateFileContents request of commitFile is answered
commitFile_write ==
  /\ cf.pc = "write"
  /\ \/ LET status == WriteStatus(remote[cf.path], cf.params) IN
        /\ io' = Append(io, IoWrite(cf.path, cf.params, status, remote[cf.path]))
        /\ IF status \in {200, 201}
           THEN /\ remote' = [remote EXCEPT ![cf.path] = File(FromBase64(cf.params.content))]
                /\ cf' = CommitOnWritten(cf, status)
                /\ UNCHANGED log
           ELSE /\ cf' = CommitOnThrow(cf, [status |-> status])
                /\ log' = Append(log, "core.error")
                /\ UNCHANGED remote
     \/ \E e \in RestErrors :
          /\ io' = Append(io, IoWrite(cf.path, cf.params, e.status, remote[cf.path]))
          /\ cf' = CommitOnThrow(cf, e)
          /\ log' = Append(log, "core.error")
          /\ UNCHANGED remote
  /\ UNCHANGED <<envVars, fetchSide, genSide, otherCommits, patch>>

(* -------------------------- updateReadmeWithBadges -------------------- *)
IdlePatch == [pc |-> "idle", existing |-> <<>>, newContent |-> <<>>,
              result |-> <<>>, error |-> <<>>]

Includes(content, token) == \E i \in 1..Len(content) : content[i] = token

\* the first index >= from that holds the token, 0 when there is none
IndexFrom(content, token, from) ==
  IF \E i \in from..Len(content) : content[i] = token
  THEN CHOOSE i \in from..Len(content) :
         content[i] = token /\ \A j \in from..(i - 1) : content[j] # token
  ELSE 0

\* a variant whose pattern is greedy: S[\s\S]*E
ReplaceMarkers_greedy(content, refs, from) ==
  LET s == IndexFrom(content, startMarker, from)
      e == IF s = 0 \/ ~\E j \in (s + 1)..Len(content) : content[j] = endMarker THEN 0
           ELSE CHOOSE j \in (s + 1)..Len(content) :
                  content[j] = endMarker /\ \A l \in (j + 1)..Len(content) : content[l] # endMarker
  IN IF s = 0 \/ e = 0
     THEN SubSeq(content, from, Len(content))
     ELSE SubSeq(content, from, s - 1)
            \o <<startMarker, "n">> \o refs \o <<"n", endMarker>>
            \o SubSeq(content, e + 1, Len(content))

\* content.replace(/S[\s\S]*?E/g, `${startMarker}\n${badgeReferences}\n${endMarker}`)
\* from position `from` on: every leftmost shortest S...E is replaced
RECURSIVE ReplaceMarkers(_, _, _)
ReplaceMarkers(content, refs, from) ==
  LET s == IndexFrom(content, startMarker, from)
      e == IF s = 0 THEN 0 ELSE IndexFrom(content, endMarker, s + 1)
  IN IF s = 0 \/ e = 0
     THEN SubSeq(content, from, Len(content))
     ELSE SubSeq(content, from, s - 1)
            \o <<startMarker, "n">> \o refs \o <<"n", endMarker>>
            \o ReplaceMarkers(content, refs, e + 1)

\* updateReadmeWithBadges up to its first await: the getContent request is sent
PatchOnCall == [IdlePatch EXCEPT !.pc = "read"]

\* if (!existingReadme) { core.warning(...); return null; }
PatchOnAbsent(p) == [p EXCEPT !.pc = "returned", !.result = <<"null">>]

\* a variant that commits whatever the README holds
PatchDecision_always(content, refs) == "commit"

\* a variant without the guard on unchanged content
PatchDecision_noGuard(content, refs) ==
  IF ~Includes(content, startMarker) \/ ~Includes(content, endMarker) THEN "skip"
  ELSE "commit"

\* what the patcher does with the README it read: "skip" (markers missing),
\* "unchanged" (nothing to write) or "commit"
PatchDecision(content, refs) ==
  IF ~Includes(content, startMarker) \/ ~Includes(content, endMarker) THEN "skip"
  ELSE IF ReplaceMarkers(content, refs, 1) = content THEN "unchanged"
  ELSE "commit"

\* catch (error) { core.error(...); throw error; }
PatchOnThrow(p, error) == [p EXCEPT !.pc = "rejected", !.error = <<error>>]

updateReadmeWithBadges_call ==
  /\ op = "updateReadmeWithBadges"
  /\ patch.pc = "idle"
  /\ patch' = PatchOnCall
  /\ UNCHANGED <<envVars, fetchSide, genSide, remote, otherCommits, cf, io, log>>

\* the getContent request of updateReadmeWithBadges is answered
updateReadmeWithBadges_read ==
  /\ patch.pc = "read"
  /\ \E answer \in GetContentAnswers(remote[README]) :
       LET existingReadme == GetFileContent(answer) IN
       /\ io' = Append(io, IoRead(README, answer.error.status))
       /\ CASE existingReadme[1] = "throw" ->
               /\ patch' = PatchOnThrow(patch, existingReadme[2])
               /\ log' = Append(log, "core.error")
               /\ UNCHANGED cf
            [] existingReadme[1] = "null" ->
               /\ patch' = PatchOnAbsent(patch)
               /\ log' = Append(log, "core.warning")
               /\ UNCHANGED cf
            [] OTHER ->
               LET content == existingReadme[2].content
                   decision == PatchDecision(content, badgeReferences)
                   newContent == ReplaceMarkers(content, badgeReferences, 1)
               IN CASE decision = "commit" ->
                       /\ patch' = [patch EXCEPT !.pc = "commit",
                                                 !.existing = <<existingReadme[2]>>,
                                                 !.newContent = newContent]
                       /\ cf' = CommitOnCall(README, newContent, "updateReadmeWithBadges")
                       /\ UNCHANGED log
                    [] decision = "skip" ->
                       /\ patch' = [patch EXCEPT !.pc = "returned",
                                                 !.existing = <<existingReadme[2]>>,
                                                 !.result = <<"null">>]
                       /\ log' = Append(log, "core.warning")
                       /\ UNCHANGED cf
                    [] OTHER ->
                       /\ patch' = [patch EXCEPT !.pc = "returned",
                                                 !.existing = <<existingReadme[2]>>,
                                                 !.result = <<"null">>]
                       /\ UNCHANGED <<cf, log>>
  /\ UNCHANGED <<envVars, fetchSide, genSide, remote, otherCommits>>

\* commitFile has settled: return its data, or log and throw its error again
updateReadmeWithBadges_committed ==
  /\ patch.pc = "commit"
  /\ cf.caller = "updateReadmeWithBadges"
  /\ \/ /\ cf.pc = "returned"
        /\ patch' = [patch EXCEPT !.pc = "returned", !.result = cf.result]
        /\ UNCHANGED log
     \/ /\ cf.pc = "rejected"
        /\ patch' = PatchOnThrow(patch, cf.error[1])
        /\ log' = Append(log, "core.error")
  /\ UNCHANGED <<envVars, fetchSide, genSide, remote, otherCommits, cf, io>>

\* updates of the README in one run of the workflow
MaxUpdates == 2

\* the contents-API writes to the README the backend accepted, as indices into io
AcceptedReadmeWrites ==
  {i \in 1..Len(io) : /\ io[i].call = "createOrUpdateFileContents"
                      /\ io[i].path = README
                      /\ io[i].status \in {200, 201}}

\* updateReadmeWithBadges is called again with the same badge references
\* after an update that was committed
updateReadmeWithBadges_again ==
  /\ op = "updateReadmeWithBadges"
  /\ patch.pc = "returned"
  /\ patch.newContent # <<>>
  /\ Cardinality(AcceptedReadmeWrites) < MaxUpdates
  /\ patch' = PatchOnCall
  /\ UNCHANGED <<envVars, fetchSide, genSide, remote, otherCommits, cf, io, log>>

\* another writer commits an edit of the README (with the sha it has just read)
OtherWriter_commit ==
  /\ otherCommits < MaxOtherCommits
  /\ remote[README].exists
  /\ remote' = [remote EXCEPT ![README] = File(Append(@.content, "edit"))]
  /\ otherCommits' = otherCommits + 1
  /\ UNCHANGED <<envVars, fetchSide, genSide, cf, patch, io, log>>


(* ------------------------- start-up of src/index.js ------------------- *)
\* JavaScript values of the inputs: undefined, null or a string
JsUndefined == [type |-> "undefined", value |-> ""]
JsNull == [type |-> "null", value |-> ""]
JsString(s) == [type |-> "string", value |-> s]
InputValues == {JsUndefined, JsNull, JsString(""), JsString("x")}

\* !input
Falsy(input) == input.type # "string" \/ input.value = ""

\* a || b
JsOr(a, b) == IF Falsy(a) THEN b ELSE a

\* a variant that only rejects the empty string
validateRequiredInput_emptyOnly(input, label) ==
  IF input = JsString("") THEN <<"throw", <<label, "is required">>>>
  ELSE <<"return", input>>

\* if (!input) throw new Error(`${label} is required`); return input;
validateRequiredInput(input, label) ==
  IF Falsy(input) THEN <<"throw", <<label, "is required">>>>
  ELSE <<"return", input>>

\* argv and core.getInput of a run in which both inputs are given
DefaultEnv ==
  [argv |-> [organization |-> JsUndefined, token |-> JsUndefined],
   getInput |-> [organization |-> JsString("x"), token |-> JsString("x")]]

\* the module-level code of src/index.js: the inputs are read and validated;
\* an exception here is uncaught, the module is left and the runner never runs
index_initialize ==
  /\ op = "index.js"
  /\ gen.pc = "idle"
  /\ LET organization == JsOr(env.argv.organization, env.getInput.organization)
         token == JsOr(env.argv.token, env.getInput.token)
         org == validateRequiredInput(organization, "organization")
         tok == validateRequiredInput(token, "token")
     IN IF org[1] = "throw"
        THEN gen' = [gen EXCEPT !.pc = "crashed", !.error = <<org[2]>>]
        ELSE IF tok[1] = "throw"
        THEN gen' = [gen EXCEPT !.pc = "crashed", !.error = <<tok[2]>>]
        ELSE gen' = [gen EXCEPT !.pc = "initialized", !.organization = <<organization>>,
                                !.token = <<token>>]
  /\ UNCHANGED <<envVars, fetchSide, patchSide, files, badgeReferences, log>>

(* ---------------------------- sanitizeFilename ----------------------- *)
\* A label is a sequence of characters.
MaxLabel == 4
Unsafe == {"<", ">", ":", "\"", "/", "\\", "|", "?", "*"}
Whitespace == {" ", "\t", "\n"}
LowerCase == [c \in {"T", "L", "N", "M", "F"} |->
                CASE c = "T" -> "t" [] c = "L" -> "l" [] c = "N" -> "n"
                  [] c = "M" -> "m" [] OTHER -> "f"]
UpperCaseLetters == DOMAIN LowerCase

\* .replace(/[<>:"/\\|?*]/g, '-')
ReplaceUnsafe(s) == [i \in 1..Len(s) |-> IF s[i] \in Unsafe THEN "-" ELSE s[i]]

\* a variant that replaces each whitespace character: .replace(/\s/g, '-')
ReplaceWhitespace_each(s) == [i \in 1..Len(s) |-> IF s[i] \in Whitespace THEN "-" ELSE s[i]]

\* .replace(/\s+/g, '-'): each maximal run of whitespace becomes one dash
RECURSIVE ReplaceWhitespace(_)
ReplaceWhitespace(s) ==
  IF s = <<>> THEN <<>>
  ELSE IF Head(s) \in Whitespace
       THEN IF Len(s) > 1 /\ s[2] \in Whitespace
            THEN ReplaceWhitespace(Tail(s))
            ELSE <<"-">> \o ReplaceWhitespace(Tail(s))
       ELSE <<Head(s)>> \o ReplaceWhitespace(Tail(s))

\* .toLowerCase()
toLowerCase(s) ==
  [i \in 1..Len(s) |-> IF s[i] \in UpperCaseLetters THEN LowerCase[s[i]] ELSE s[i]]

sanitizeFilename(filename) == toLowerCase(ReplaceWhitespace(ReplaceUnsafe(filename)))

IdleSan == [pc |-> "idle", label |-> <<>>, result |-> <<>>, again |-> <<>>]

\* sanitizeFilename(label)
sanitizeFilename_call ==
  /\ op = "sanitizeFilename"
  /\ san.pc = "idle"
  /\ san' = [san EXCEPT !.pc = "returned", !.result = sanitizeFilename(san.label)]
  /\ UNCHANGED <<cfgVars, mjs, fetchSide, patchSide, genSide, log>>

\* sanitizeFilename of the name that sanitizeFilename returned
sanitizeFilename_again ==
  /\ op = "sanitizeFilename"
  /\ san.pc = "returned"
  /\ san' = [san EXCEPT !.pc = "resanitized", !.again = sanitizeFilename(san.result)]
  /\ UNCHANGED <<cfgVars, mjs, fetchSide, patchSide, genSide, log>>

(* ------------------------------ generateBadges ------------------------ *)
DEFAULT_DAYS == 30

\* the configuration and environment of a run: the number of days, the clock,
\* commit_badges, update_readme, whether a REST client exists and whether
\* GITHUB_REPOSITORY is set
DefaultInputs ==
  [numDays |-> DEFAULT_DAYS, now |-> <<0, 0>>, shouldCommitBadges |-> FALSE,
   shouldUpdateReadme |-> FALSE, restClient |-> TRUE, GITHUB_REPOSITORY |-> FALSE]

IdleGen ==
  [pc |-> "idle", repos |-> <<>>, k |-> 0, repoCount |-> 0, totalOpenPRs |-> 0,
   totalMergedPRs |-> 0, prFilterDate |-> NULL, badges |-> <<>>,
   badgeFiles |-> <<>>, fsError |-> FALSE, result |-> <<>>, output |-> <<>>,
   organization |-> <<>>, token |-> <<>>, error |-> <<>>]

\* a variant that moves the date forward: date.getUTCDate() + numDays
GenFilterDate_forward(now, numDays) == <<now[1] + numDays, now[2]>>

\* date = new Date(); date.setUTCDate(date.getUTCDate() - numDays); date.toISOString()
GenFilterDate(now, numDays) == <<now[1] - numDays, now[2]>>

\* a variant that lists the merged pull requests before the created ones
GenBadgeData_mergedFirst(g, numDays) ==
  << [name |-> <<"Total repositories">>, value |-> g.repoCount],
     [name |-> <<"Merged PRs in last", numDays, "days">>, value |-> g.totalMergedPRs],
     [name |-> <<"PRs created in last", numDays, "days">>, value |-> g.totalOpenPRs] >>

\* badgeData: the three badges, in order
GenBadgeData(g, numDays) ==
  << [name |-> <<"Total repositories">>, value |-> g.repoCount],
     [name |-> <<"PRs created in last", numDays, "days">>, value |-> g.totalOpenPRs],
     [name |-> <<"Merged PRs in last", numDays, "days">>, value |-> g.totalMergedPRs] >>

\* generateBadgeSVG: the badge file for a name and a number
generateBadgeSVG(name, number) == File([label |-> name, message |-> ToString(number)])

\* path.join(badgeDir, sanitizeFilename(badgeName) + '.svg')
saveBadgePath(name) ==
  CASE name[1] = "Total repositories" -> "badges/total-repositories.svg"
    [] name[1] = "PRs created in last" -> "badges/prs-created.svg"
    [] OTHER -> "badges/merged-prs.svg"

\* `![${name}](./${badgeDir}/${filename})`
GenBadgeMarkdown(name) == [alt |-> name, src |-> saveBadgePath(name)]

\* the file system after the first n badges of badgeData were saved
GenSaved(fs, badgeData, n) ==
  [p \in BadgePaths |->
     IF \E i \in 1..n : saveBadgePath(badgeData[i].name) = p
     THEN LET i == CHOOSE i \in 1..n : saveBadgePath(badgeData[i].name) = p
          IN generateBadgeSVG(badgeData[i].name, badgeData[i].value)
     ELSE fs[p]]

\* seq.join(sep): the elements with the separator between neighbours
JoinWith(seq, sep) ==
  [i \in 1..(IF seq = <<>> THEN 0 ELSE 2 * Len(seq) - 1) |->
     IF i % 2 = 1 THEN seq[(i + 1) \div 2] ELSE sep]

\* badges.join(' '), as one string
GenJoin(badges) == ToString(JoinWith(badges, " "))

\* a variant of the catch block that exits without logging
GenCatch_silent(lg) == Append(lg, "process.exit(1)")

\* catch (error) { core.error(error.stack); process.exit(1); }
GenCatch(lg) == lg \o <<"core.error", "process.exit(1)">>

GenOnExit(g) == [g EXCEPT !.pc = "exited"]

\* return badges
GenOnReturn(g) == [g EXCEPT !.pc = "returned", !.result = <<g.badges>>]

\* a variant that counts the different names: new Set(repos).size
GenOnRepos_unique(g, rs, now, numDays) ==
  [g EXCEPT !.repos = rs, !.repoCount = Cardinality(Range(rs)), !.totalOpenPRs = 0,
            !.totalMergedPRs = 0, !.prFilterDate = GenFilterDate(now, numDays)]

\* const repos = await getRepositories(org, client) has a value: repoCount, the
\* totals and the cutoff are set
GenOnRepos(g, rs, now, numDays) ==
  [g EXCEPT !.repos = rs, !.repoCount = Len(rs), !.totalOpenPRs = 0,
            !.totalMergedPRs = 0, !.prFilterDate = GenFilterDate(now, numDays)]

\* totalOpenPRs += total; totalMergedPRs += merged
GenOnCount(g, r) ==
  [g EXCEPT !.totalOpenPRs = @ + r.total, !.totalMergedPRs = @ + r.merged]

\* a variant that lists the badge files last to first (badgeFiles.unshift)
GenOnSaved_reversed(g, badgeData) ==
  [g EXCEPT !.badges = [i \in 1..Len(badgeData) |-> GenBadgeMarkdown(badgeData[i].name)],
            !.badgeFiles = [i \in 1..Len(badgeData) |->
                              saveBadgePath(badgeData[Len(badgeData) + 1 - i].name)]]

\* the loops over badgeData have run: badges and badgeFiles are filled
GenOnSaved(g, badgeData) ==
  [g EXCEPT !.badges = [i \in 1..Len(badgeData) |-> GenBadgeMarkdown(badgeData[i].name)],
            !.badgeFiles = [i \in 1..Len(badgeData) |-> saveBadgePath(badgeData[i].name)]]

\* a variant that commits whenever a REST client is there
GenShouldCommit_always(i) == i.restClient

\* if (shouldCommitBadges && restClient)
GenShouldCommit(i) == i.shouldCommitBadges /\ i.restClient

\* a variant that never finds the repository context missing
GenRepoContextMissing_never(i) == FALSE

\* const repoContext = process.env.GITHUB_REPOSITORY; if (!repoContext)
GenRepoContextMissing(i) == ~i.GITHUB_REPOSITORY

\* generateBadges from the end of the loop over repos to its next await, its
\* return or its catch block: the badges are generated and saved (saveBadgeSVG
\* may throw at any of them), then the commit section starts
GenAfterLoop(g) ==
  LET badgeData == GenBadgeData(g, inputs.numDays)
      saved == GenOnSaved(g, badgeData)
      written == GenSaved(files, badgeData, Len(badgeData))
  IN \/ \E n \in 1..Len(badgeData) :
          /\ files' = GenSaved(files, badgeData, n - 1)
          /\ gen' = GenOnExit([g EXCEPT !.fsError = TRUE])
          /\ log' = GenCatch(log)
          /\ UNCHANGED cf
     \/ /\ files' = written
        /\ IF GenShouldCommit(inputs)
           THEN IF GenRepoContextMissing(inputs)
                THEN /\ log' = Append(log, "core.warning")
                     /\ gen' = GenOnReturn(saved)
                     /\ UNCHANGED cf
                ELSE /\ gen' = [saved EXCEPT !.pc = "commit", !.k = 1]
                     /\ cf' = CommitOnCall(saved.badgeFiles[1],
                                           written[saved.badgeFiles[1]].content,
                                           "generateBadges")
                     /\ UNCHANGED log
           ELSE /\ gen' = GenOnReturn(saved)
                /\ UNCHANGED <<cf, log>>

\* generateBadges up to its first await: getRepositories sends its first request
\* (called as an exported function, or by the runner after the start-up code)
generateBadges_call ==
  /\ \/ op = "generateBadges" /\ gen.pc = "idle"
     \/ op = "index.js" /\ gen.pc = "initialized"
  /\ fetch.pc = "idle"
  /\ gen' = [gen EXCEPT !.pc = "repos"]
  /\ fetch' = FetchOnCall(fetch)
  /\ UNCHANGED <<envVars, count, agg, orch, patchSide, files, badgeReferences, log>>

\* getRepositories returned: the cutoff is computed and the first aggregator
\* call is made (or, without repositories, the badges are generated)
generateBadges_repos ==
  /\ gen.pc = "repos"
  /\ fetch.pc = "returned"
  /\ LET g == GenOnRepos(gen, fetch.result[1], inputs.now, inputs.numDays) IN
       IF g.repos # <<>>
       THEN /\ gen' = [g EXCEPT !.pc = "prs", !.k = 1]
            /\ agg' = [agg EXCEPT ![1] = AggOnCall(g.repos[1], g.prFilterDate)]
            /\ UNCHANGED <<files, cf, log>>
       ELSE /\ GenAfterLoop(g)
            /\ UNCHANGED agg
  /\ UNCHANGED <<envVars, count, fetch, orch, remote, otherCommits, patch, io,
                 badgeReferences>>

\* the aggregator call of repos[k] returned: add its counts, then call the
\* aggregator for the next repository (or, after the last, generate the badges)
generateBadges_prs ==
  /\ gen.pc = "prs"
  /\ agg[gen.k].pc = "returned"
  /\ LET g == GenOnCount(gen, agg[gen.k].result[1]) IN
       IF gen.k < Len(gen.repos)
       THEN /\ gen' = [g EXCEPT !.k = @ + 1]
            /\ agg' = [agg EXCEPT ![gen.k + 1] =
                         AggOnCall(g.repos[gen.k + 1], g.prFilterDate)]
            /\ UNCHANGED <<files, cf, log>>
       ELSE /\ GenAfterLoop(g)
            /\ UNCHANGED agg
  /\ UNCHANGED <<envVars, count, fetch, orch, remote, otherCommits, patch, io,
                 badgeReferences>>

\* commitFile of badgeFiles[k] returned: commit the next badge file, then
\* update the README if requested, then return the badges
generateBadges_committed ==
  /\ gen.pc = "commit"
  /\ cf.caller = "generateBadges"
  /\ cf.pc = "returned"
  /\ IF gen.k < Len(gen.badgeFiles)
     THEN /\ gen' = [gen EXCEPT !.k = @ + 1]
          /\ cf' = CommitOnCall(gen.badgeFiles[gen.k + 1],
                                files[gen.badgeFiles[gen.k + 1]].content,
                                "generateBadges")
          /\ UNCHANGED <<patch, badgeReferences>>
     ELSE IF inputs.shouldUpdateReadme
          THEN /\ gen' = [gen EXCEPT !.pc = "readme"]
               /\ badgeReferences' = <<GenJoin(gen.badges)>>
               /\ patch' = PatchOnCall
               /\ UNCHANGED cf
          ELSE /\ gen' = GenOnReturn(gen)
               /\ UNCHANGED <<cf, patch, badgeReferences>>
  /\ UNCHANGED <<envVars, fetchSide, remote, otherCommits, io, files, log>>

\* updateReadmeWithBadges returned: return badges
generateBadges_readme ==
  /\ gen.pc = "readme"
  /\ patch.pc = "returned"
  /\ gen' = GenOnReturn(gen)
  /\ UNCHANGED <<envVars, fetchSide, patchSide, files, badgeReferences, log>>

\* an awaited call rejected: the catch block logs the error and exits
generateBadges_catch ==
  /\ \/ gen.pc = "repos" /\ fetch.pc = "rejected"
     \/ gen.pc = "prs" /\ agg[gen.k].pc = "rejected"
     \/ gen.pc = "commit" /\ cf.caller = "generateBadges" /\ cf.pc = "rejected"
     \/ gen.pc = "readme" /\ patch.pc = "rejected"
  /\ gen' = GenOnExit(gen)
  /\ log' = GenCatch(log)
  /\ UNCHANGED <<envVars, fetchSide, patchSide, files, badgeReferences>>

\* the top-level runner after `await generateBadges()`:
\* core.setOutput('badges', badges.join(' '))
runner_setOutput ==
  /\ gen.pc = "returned"
  /\ gen' = [gen EXCEPT !.pc = "done", !.output = <<GenJoin(gen.result[1])>>]
  /\ log' = Append(log, "core.setOutput")
  /\ UNCHANGED <<envVars, fetchSide, patchSide, files, badgeReferences>>

(* ------------------------------ src/index.mjs -------------------------- *)
\* count / prs: the two promises handed to Promise.all; all: Promise.all itself
IdleMjs ==
  [pc |-> "idle", count |-> "pending", prs |-> "pending", all |-> "pending",
   repos |-> <<>>, k |-> 0, totalOpenPRs |-> 0, totalMergedPRs |-> 0,
   prFilterDate |-> NULL, badgeURLs |-> <<>>, exitCode |-> <<>>]

\* new Date(x).toISOString().slice(0, 10): the date-only string of an instant
ISODay(x) == <<Date(x) \div TicksPerDay>>

\* a < b on strings: the first differing field decides, a proper prefix is less
StrLess(a, b) ==
  \E i \in 1..Len(b) :
    /\ \A j \in 1..(i - 1) : j <= Len(a) /\ a[j] = b[j]
    /\ i > Len(a) \/ a[i] < b[i]

\* a >= b on strings
StrGE(a, b) == ~StrLess(a, b)

\* nodes.filter(pr => new Date(pr.createdAt).toISOString().slice(0, 10) >= prFilterDate)
MjsOpenPullRequests(pullRequests, date) ==
  SelectSeq(pullRequests, LAMBDA pr : StrGE(ISODay(pr.createdAt), date))

\* pullRequests.filter(pr => pr.state === 'MERGED' &&
\*                     new Date(pr.mergedAt).toISOString().slice(0, 10) >= prFilterDate)
MjsMergedPRs(pullRequests, date) ==
  SelectSeq(pullRequests,
            LAMBDA pr : pr.state = "MERGED" /\ StrGE(ISODay(pr.mergedAt), date))

\* getPullRequestsCount of index.mjs after its await: count the page, take
\* pageInfo, then either send the next request or return {total, merged}
MjsAggOnResolve(a, page) ==
  LET t == a.total + Len(MjsOpenPullRequests(page.nodes, a.date))
      m == a.merged + Len(MjsMergedPRs(page.nodes, a.date))
      more == page.pageInfo.hasNextPage
      cursor == page.pageInfo.endCursor
  IN [a EXCEPT !.total = t,
               !.merged = m,
               !.hasNextPage = more,
               !.endCursor = cursor,
               !.pages = Append(@, page.nodes),
               !.requests = IF more THEN Append(@, cursor) ELSE @,
               !.pc = IF more THEN "await" ELSE "returned",
               !.result = IF more THEN <<>> ELSE <<[total |-> t, merged |-> m]>>]

\* generateBadgeURL(text, number, 'blue')
generateBadgeURL(text, number) == [label |-> text, message |-> ToString(number)]

\* Promise.all([...]).then(() => console.log(badgeURLs)).catch(console.error):
\* the first rejection rejects Promise.all and console.error prints the error;
\* when both promises have fulfilled console.log prints the list
MjsSettle(m) ==
  IF m.all # "pending" THEN m
  ELSE IF "rejected" \in {m.count, m.prs} THEN [m EXCEPT !.all = "rejected"]
  ELSE IF m.count = "fulfilled" /\ m.prs = "fulfilled" THEN [m EXCEPT !.all = "fulfilled"]
  ELSE m

\* what the reactions of Promise.all print when m becomes n
MjsSettleLog(m, n) ==
  IF m.all = n.all THEN <<>>
  ELSE IF n.all = "rejected" THEN <<"console.error">> ELSE <<"console.log(badgeURLs)">>

\* the .then of getRepositoryCount: badgeURLs.push(reposTotalBadgeUrl)
MjsOnCount(m, n) ==
  [m EXCEPT !.count = "fulfilled",
            !.badgeURLs = Append(@, generateBadgeURL(<<"Total repositories">>, n))]

\* the end of the .then of getRepositories: the two badge URLs are pushed
MjsOnTotals(m, days) ==
  [m EXCEPT !.prs = "fulfilled",
            !.badgeURLs = @ \o
              << generateBadgeURL(<<"Open PRs in last", days, "days">>, m.totalOpenPRs),
                 generateBadgeURL(<<"Merged PRs in last", days, "days">>, m.totalMergedPRs) >>]

\* the process ends when nothing is pending; process.exitCode is never
\* assigned and every rejection is handled by the .catch
MjsExitCode(m) == 0

\* module evaluation: both branches send their first request
mjs_start ==
  /\ op = "index.mjs"
  /\ mjs.pc = "idle"
  /\ mjs' = [mjs EXCEPT !.pc = "running"]
  /\ count' = [count EXCEPT !.pc = "await", !.requests = 1]
  /\ fetch' = FetchOnCall(fetch)
  /\ UNCHANGED <<cfgVars, san, agg, orch, patchSide, genSide, log>>

\* getRepositoryCount resolves and its .then runs
mjs_count_resolve ==
  /\ mjs.pc = "running"
  /\ count.pc = "await"
  /\ count' = [count EXCEPT !.pc = "returned", !.result = <<Len(orgRepos)>>]
  /\ LET m == MjsSettle(MjsOnCount(mjs, Len(orgRepos))) IN
       /\ mjs' = m
       /\ log' = log \o MjsSettleLog(mjs, m)
  /\ UNCHANGED <<cfgVars, san, fetch, agg, orch, patchSide, genSide>>

\* getRepositoryCount rejects
mjs_count_reject(e) ==
  /\ mjs.pc = "running"
  /\ count.pc = "await"
  /\ count' = CountOnReject(count, e)
  /\ LET m == MjsSettle([mjs EXCEPT !.count = "rejected"]) IN
       /\ mjs' = m
       /\ log' = log \o MjsSettleLog(mjs, m)
  /\ UNCHANGED <<cfgVars, san, fetch, agg, orch, patchSide, genSide>>

\* the .then of getRepositories from the first repository not yet counted: the
\* next aggregator call is made, or after the last the badge URLs are pushed
MjsLoop(m, aggs) ==
  IF m.k < Len(m.repos)
  THEN /\ mjs' = [m EXCEPT !.k = @ + 1]
       /\ agg' = [aggs EXCEPT ![m.k + 1] = AggOnCall(m.repos[m.k + 1], m.prFilterDate)]
       /\ UNCHANGED log
  ELSE LET n == MjsSettle(MjsOnTotals(m, inputs.numDays)) IN
       /\ mjs' = n
       /\ agg' = aggs
       /\ log' = log \o MjsSettleLog(m, n)

\* a page of getRepositories arrives; after the last page its .then runs: the
\* cutoff is computed and the loop over repos starts
mjs_repos_resolve(k) ==
  /\ mjs.pc = "running"
  /\ fetch.pc = "await"
  /\ k \in PageSizes(orgRepos, fetch.requests[Len(fetch.requests)])
  /\ LET f == FetchOnResolve(fetch,
                ServerPage(orgRepos, fetch.requests[Len(fetch.requests)], k))
     IN /\ fetch' = f
        /\ IF f.pc = "returned"
           THEN MjsLoop([mjs EXCEPT !.repos = f.result[1],
                                    !.prFilterDate =
                                       GenFilterDate(inputs.now, inputs.numDays)],
                        agg)
           ELSE UNCHANGED <<mjs, agg, log>>
  /\ UNCHANGED <<cfgVars, san, count, orch, patchSide, genSide>>

\* getRepositories rejects
mjs_repos_reject(e) ==
  /\ mjs.pc = "running"
  /\ fetch.pc = "await"
  /\ fetch' = FetchOnReject(fetch, e)
  /\ LET m == MjsSettle([mjs EXCEPT !.prs = "rejected"]) IN
       /\ mjs' = m
       /\ log' = log \o MjsSettleLog(mjs, m)
  /\ UNCHANGED <<cfgVars, san, count, agg, orch, patchSide, genSide>>

\* a page of the aggregator call of repos[k] arrives; after its last page the
\* totals are added and the loop goes on
mjs_prs_resolve(k) ==
  /\ mjs.pc = "running"
  /\ mjs.k \in CallIds
  /\ agg[mjs.k].pc = "await"
  /\ LET c == mjs.k
         after == agg[c].requests[Len(agg[c].requests)]
         a == MjsAggOnResolve(agg[c], ServerPage(repoPRs[agg[c].repo], after, k))
     IN /\ k \in PageSizes(repoPRs[agg[c].repo], after)
        /\ IF a.pc = "returned"
           THEN MjsLoop([mjs EXCEPT !.totalOpenPRs = @ + a.result[1].total,
                                    !.totalMergedPRs = @ + a.result[1].merged],
                        [agg EXCEPT ![c] = a])
           ELSE /\ agg' = [agg EXCEPT ![c] = a]
                /\ UNCHANGED <<mjs, log>>
  /\ UNCHANGED <<cfgVars, san, count, fetch, orch, patchSide, genSide>>

\* the aggregator call of repos[k] rejects: the .then of getRepositories rejects
mjs_prs_reject(e) ==
  /\ mjs.pc = "running"
  /\ mjs.k \in CallIds
  /\ agg[mjs.k].pc = "await"
  /\ agg' = [agg EXCEPT ![mjs.k] = AggOnReject(@, e)]
  /\ LET m == MjsSettle([mjs EXCEPT !.prs = "rejected"]) IN
       /\ mjs' = m
       /\ log' = log \o MjsSettleLog(mjs, m)
  /\ UNCHANGED <<cfgVars, san, count, fetch, orch, patchSide, genSide>>

\* nothing is pending any more: the process ends
mjs_exit ==
  /\ mjs.pc = "running"
  /\ mjs.count # "pending"
  /\ mjs.prs # "pending"
  /\ mjs' = [mjs EXCEPT !.pc = "exited", !.exitCode = <<MjsExitCode(mjs)>>]
  /\ UNCHANGED <<cfgVars, san, fetchSide, patchSide, genSide, log>>

IdlePatchSide ==
  /\ remote = [p \in Paths |-> Absent]
  /\ otherCommits = 0
  /\ cf = IdleCommit
  /\ patch = IdlePatch
  /\ io = <<>>
  /\ log = <<>>

IdleGenSide ==
  /\ mjs = IdleMjs
  /\ env = DefaultEnv
  /\ san = IdleSan
  /\ inputs = DefaultInputs
  /\ gen = IdleGen
  /\ files = [p \in BadgePaths |-> Absent]
  /\ badgeReferences = <<>>

(* ------------------- the single-operation specification --------------- *)
NoPRs == [r \in RepoNames |-> <<>>]

Init ==
  /\ count = IdleCount
  /\ fetch = IdleFetch
  /\ agg = [c \in CallIds |-> IdleAgg]
  /\ repos = <<>>
  /\ batchSize = DefaultBatchSize
  /\ orch = IdleOrch
  /\ IdlePatchSide
  /\ IdleGenSide
  /\ \/ /\ op \in {"getRepositoryCount", "getRepositories"}
        /\ orgRepos \in SeqsUpTo(RepoNames, MaxRepos)
        /\ repoPRs = NoPRs
        /\ prFilterDate = <<2>>
     \/ /\ op = "getPullRequestsCount"
        /\ orgRepos = <<"repo1">>
        /\ \E prs \in SeqsUpTo(PullRequests, MaxPRs) :
             repoPRs = [NoPRs EXCEPT !["repo1"] = prs]
        /\ prFilterDate \in Cutoffs

Next ==
  \/ getRepositoryCount_call
  \/ getRepositoryCount_resolve
  \/ \E e \in TransportErrors : getRepositoryCount_reject(e)
  \/ getRepositories_call
  \/ \E k \in 0..MaxRepos : getRepositories_resolve(k)
  \/ \E e \in TransportErrors : getRepositories_reject(e)
  \/ getPullRequestsCount_call
  \/ \E c \in CallIds, k \in 0..MaxPRs : getPullRequestsCount_resolve(c, k)
  \/ \E c \in CallIds, e \in TransportErrors : getPullRequestsCount_reject(c, e)

Spec == Init /\ [][Next]_vars

(* ---------------------- the batch specification ----------------------- *)
\* the pull requests the three repositories hold in the batch runs
PR_mergedInWindow == [createdAt |-> <<2, 0>>, mergedAt |-> <<2, 1>>, state |-> "MERGED"]
PR_openInWindow == [createdAt |-> <<2, 1>>, mergedAt |-> NULL, state |-> "OPEN"]
PR_mergedLate == [createdAt |-> <<1, 1>>, mergedAt |-> <<2, 1>>, state |-> "MERGED"]
BatchPRs ==
  [r \in RepoNames |->
     CASE r = "repo1" -> <<PR_mergedInWindow, PR_openInWindow>>
       [] r = "repo2" -> <<PR_openInWindow>>
       [] OTHER -> <<PR_mergedLate>>]

InitBatch ==
  /\ op = "processPullRequestsInBatches"
  /\ count = IdleCount
  /\ fetch = IdleFetch
  /\ agg = [c \in CallIds |-> IdleAgg]
  /\ orgRepos = <<>>
  /\ repoPRs = BatchPRs
  /\ prFilterDate \in Cutoffs
  /\ repos \in SeqsUpTo(RepoNames, MaxRepos)
  /\ batchSize \in 1..MaxRepos
  /\ orch = IdleOrch
  /\ IdlePatchSide
  /\ IdleGenSide

\* every batchSize a caller can pass, 0 included
InitBatchAny ==
  /\ op = "processPullRequestsInBatches"
  /\ count = IdleCount
  /\ fetch = IdleFetch
  /\ agg = [c \in CallIds |-> IdleAgg]
  /\ orgRepos = <<>>
  /\ repoPRs = BatchPRs
  /\ prFilterDate \in Cutoffs
  /\ repos \in SeqsUpTo(RepoNames, MaxRepos)
  /\ batchSize \in 0..MaxRepos
  /\ orch = IdleOrch
  /\ IdlePatchSide
  /\ IdleGenSide

NextBatch ==
  \/ processPullRequestsInBatches_call
  \/ processPullRequestsInBatches_resume
  \/ processPullRequestsInBatches_throw
  \/ \E c \in CallIds, k \in 0..MaxPRs : getPullRequestsCount_resolve(c, k)
  \/ \E c \in CallIds, e \in TransportErrors : getPullRequestsCount_reject(c, e)

SpecBatch == InitBatch /\ [][NextBatch]_vars

SpecBatchAny == InitBatchAny /\ [][NextBatch]_vars

(* ---------------------- the README specification ---------------------- *)
\* the badge references of a run
BadgeRefs == {<<"badges">>, <<"badges2">>}

\* READMEs as people write them, and as an earlier run has left them
WrittenDocs == SeqsUpTo({startMarker, endMarker, "text"}, MaxDoc)
Docs == WrittenDocs \cup {ReplaceMarkers(doc, <<"badges">>, 1) : doc \in WrittenDocs}

InitReadme ==
  /\ op = "updateReadmeWithBadges"
  /\ count = IdleCount
  /\ fetch = IdleFetch
  /\ agg = [c \in CallIds |-> IdleAgg]
  /\ orgRepos = <<>>
  /\ repoPRs = NoPRs
  /\ prFilterDate = <<2>>
  /\ repos = <<>>
  /\ batchSize = DefaultBatchSize
  /\ orch = IdleOrch
  /\ badgeReferences \in BadgeRefs
  /\ \E file \in {Absent} \cup {File(doc) : doc \in Docs} :
       remote = [p \in Paths |-> IF p = README THEN file ELSE Absent]
  /\ otherCommits = 0
  /\ cf = IdleCommit
  /\ patch = IdlePatch
  /\ io = <<>>
  /\ log = <<>>
  /\ inputs = DefaultInputs
  /\ gen = IdleGen
  /\ files = [p \in BadgePaths |-> Absent]
  /\ mjs = IdleMjs
  /\ env = DefaultEnv
  /\ san = IdleSan

NextReadme ==
  \/ updateReadmeWithBadges_call
  \/ updateReadmeWithBadges_read
  \/ commitFile_read
  \/ commitFile_write
  \/ updateReadmeWithBadges_committed
  \/ OtherWriter_commit

SpecReadme == InitReadme /\ [][NextReadme]_vars

\* the README specification with repeated updates
NextRerun == NextReadme \/ updateReadmeWithBadges_again

SpecRerun == InitReadme /\ [][NextRerun]_vars

(* ======================= properties: the fetchers ===================== *)
RECURSIVE Flatten(_)
Flatten(ss) == IF ss = <<>> THEN <<>> ELSE Head(ss) \o Flatten(Tail(ss))

\* the claim's "timestamp >= cutoff", on the calendar fields themselves
AtOrAfter(ts, c) ==
  \/ ts[1] > c[1]
  \/ ts[1] = c[1] /\ ts[2] >= (IF Len(c) = 1 THEN 0 ELSE c[2])

\* C1: when getRepositories returns after N pages (hasNextPage true on pages
\* 1..N-1, false on page N) its result is the names of all N pages concatenated
\* in the order received, and the transport was invoked exactly N times.
C1_ConcatAllPages ==
  fetch.pc = "returned" =>
    /\ fetch.result = <<Flatten(fetch.pages)>>
    /\ Len(fetch.requests) = Len(fetch.pages)
    /\ \A i \in 1..Len(fetch.flags) : fetch.flags[i] = (i < Len(fetch.flags))
    /\ fetch.result = <<orgRepos>>

\* C1 witness: a fetch of three pages returned three names, one of them twice
C1_Witness ==
  /\ fetch.pc = "returned"
  /\ Len(fetch.pages) = 3
  /\ fetch.result = <<(<<"repo2", "repo1", "repo2">>)>>

\* C2: when getPullRequestsCount returns, total is the number of the
\* repository's pull requests created at or after the cutoff and merged is the
\* number in state MERGED with a merge timestamp at or after the cutoff.
C2_WindowCounts ==
  LET prs == repoPRs["repo1"] IN
  agg[1].pc = "returned" =>
    /\ agg[1].result[1].total =
         Cardinality({i \in 1..Len(prs) : AtOrAfter(prs[i].createdAt, prFilterDate)})
    /\ agg[1].result[1].merged =
         Cardinality({i \in 1..Len(prs) :
                        /\ prs[i].state = "MERGED"
                        /\ prs[i].mergedAt # NULL
                        /\ AtOrAfter(prs[i].mergedAt, prFilterDate)})

\* C2 witness: a pull request created before the cutoff and merged at it counts
\* toward merged only, next to an open one created exactly at the cutoff
C2_Witness ==
  /\ agg[1].pc = "returned"
  /\ prFilterDate = <<2, 0>>
  /\ repoPRs["repo1"] =
       << [createdAt |-> <<1, 1>>, mergedAt |-> <<2, 0>>, state |-> "MERGED"],
          [createdAt |-> <<2, 0>>, mergedAt |-> NULL, state |-> "OPEN"] >>
  /\ agg[1].result = <<[total |-> 1, merged |-> 1]>>

\* what the aggregator returns when the same pull requests arrive in one page
SinglePageResult(prs, date) ==
  AggOnResolve(AggOnCall("repo1", date), ServerPage(prs, UNDEFINED, Len(prs))).result

\* C3: however the pull requests are split into consecutive pages, the result
\* equals the single-page result, and at every moment total and merged are at
\* most the number of pull requests received so far.
C3_NoDoubleCount ==
  /\ agg[1].total <= Len(Flatten(agg[1].pages))
  /\ agg[1].merged <= Len(Flatten(agg[1].pages))
  /\ agg[1].pc = "returned" =>
       /\ Flatten(agg[1].pages) = repoPRs["repo1"]
       /\ agg[1].result = SinglePageResult(Flatten(agg[1].pages), prFilterDate)

\* C3 witness: two counted pull requests arrived in two pages
C3_Witness ==
  /\ agg[1].pc = "returned"
  /\ Len(agg[1].pages) = 2
  /\ agg[1].result = <<[total |-> 2, merged |-> 2]>>

\* C9, state part: once the transport has rejected a request of a call, the call
\* is rejected with that same error and has no result (no partial list or counts)
FailFastState(call) ==
  call.rejections # <<>> =>
    /\ call.pc = "rejected"
    /\ call.error = <<call.rejections[1]>>
    /\ call.result = <<>>

\* C9, step part: after a rejection the call sends no further request
FailFastStep(call, callNext) ==
  call.rejections # <<>> =>
    /\ callNext.requests = call.requests
    /\ callNext.rejections = call.rejections

\* C9: getRepositoryCount, getRepositories and getPullRequestsCount fail fast:
\* a transport rejection rejects the call with the same error, no further
\* request is sent and nothing partial is returned.
C9_FailFast ==
  [][ /\ FailFastState(count') /\ FailFastStep(count, count')
      /\ FailFastState(fetch') /\ FailFastStep(fetch, fetch')
      /\ \A c \in CallIds : FailFastState(agg'[c]) /\ FailFastStep(agg[c], agg'[c])
    ]_vars

\* C9 witness: the second request of getRepositories was rejected while the
\* names of the first page had already been collected
C9_Witness ==
  /\ fetch.pc = "rejected"
  /\ Len(fetch.requests) = 2
  /\ Len(fetch.repositories) >= 1
  /\ fetch.result = <<>>

(* ================== properties: the batch orchestrator ================ *)
\* the aggregator calls that have been started and have not settled
InFlight == {c \in CallIds : agg[c].pc = "await"}

\* C5: at most batchSize aggregator calls are started and not yet settled.
C5_BoundedConcurrency == Cardinality(InFlight) <= batchSize

\* C5 witness: batchSize 2 over three repositories, two calls in flight
C5_Witness ==
  /\ batchSize = 2
  /\ Len(repos) = 3
  /\ Cardinality(InFlight) = 2

\* the group of the claim: consecutive groups of batchSize repositories
GroupOf(c) == (c - 1) \div batchSize

\* C6, state part: a call of a later group has been started only if every call
\* of every earlier group has completed
ForkJoinState ==
  \A c, d \in 1..Len(repos) :
    (GroupOf(c) < GroupOf(d) /\ agg[d].pc # "idle") => agg[c].pc = "returned"

\* C6, step part: a step that changes the running totals starts where no
\* aggregator call is in flight and every call of the current batch has completed
ForkJoinStep ==
  (\/ orch'.totalOpenPRs # orch.totalOpenPRs
   \/ orch'.totalMergedPRs # orch.totalMergedPRs) =>
     /\ InFlight = {}
     /\ orch.batch # <<>>
     /\ \A c \in Range(orch.batch) : agg[c].pc = "returned"

\* C6: processPullRequestsInBatches is fork-join per group: no call of group k+1
\* starts before all calls of group k have completed, and the totals change only
\* when all calls of the current group have completed and none is in flight.
C6_ForkJoin == [][ForkJoinState' /\ ForkJoinStep]_vars

\* C6 witness: the second group is in flight after the first group of two was summed
C6_Witness ==
  /\ batchSize = 2
  /\ Len(orch.groups) = 2
  /\ orch.pc = "await"
  /\ agg[3].pc = "await"
  /\ orch.totalOpenPRs = 3

RECURSIVE SumOver(_, _)
SumOver(S, f) ==
  IF S = {} THEN 0
  ELSE LET x == CHOOSE y \in S : TRUE IN f[x] + SumOver(S \ {x}, f)

\* how often a repository name occurs in the list
Occurrences(r) == Cardinality({c \in 1..Len(repos) : repos[c] = r})

\* the per-repository counts, taken from the repository's pull requests
CreatedInWindow(r) ==
  Cardinality({i \in 1..Len(repoPRs[r]) :
                 AtOrAfter(repoPRs[r][i].createdAt, prFilterDate)})
MergedInWindow(r) ==
  Cardinality({i \in 1..Len(repoPRs[r]) :
                 /\ repoPRs[r][i].state = "MERGED"
                 /\ repoPRs[r][i].mergedAt # NULL
                 /\ AtOrAfter(repoPRs[r][i].mergedAt, prFilterDate)})

CeilDiv(n, b) == (n + b - 1) \div b

\* C7: a run without failure issues one aggregator call per repository, in
\* ceil(n/b) consecutive groups of b (the last possibly smaller), and returns
\* the sum of the per-repository counts, which depends only on how often each
\* repository occurs in the list, not on b or on the order.
C7_GroupsAndSum ==
  LET n == Len(repos) IN
  orch.pc = "returned" =>
    /\ \A c \in 1..n : agg[c].pc = "returned" /\ agg[c].repo = repos[c]
    /\ \A c \in CallIds \ (1..n) : agg[c].pc = "idle"
    /\ Len(orch.groups) = CeilDiv(n, batchSize)
    /\ \A g \in 1..Len(orch.groups) :
         Len(orch.groups[g]) =
           IF g < Len(orch.groups) THEN batchSize ELSE n - batchSize * (g - 1)
    /\ Flatten(orch.groups) = [c \in 1..n |-> c]
    /\ orch.result =
         <<[totalOpenPRs |->
              SumOver(RepoNames, [r \in RepoNames |-> Occurrences(r) * CreatedInWindow(r)]),
            totalMergedPRs |->
              SumOver(RepoNames, [r \in RepoNames |-> Occurrences(r) * MergedInWindow(r)])]>>

\* C7 witness: batchSize 2 over three different repositories, groups of 2 then 1
C7_Witness ==
  /\ orch.pc = "returned"
  /\ batchSize = 2
  /\ repos = <<"repo2", "repo3", "repo1">>
  /\ orch.groups = <<(<<1, 2>>), (<<3>>)>>
  /\ prFilterDate = <<2, 0>>
  /\ orch.result = <<[totalOpenPRs |-> 3, totalMergedPRs |-> 2]>>

Rejected == {c \in CallIds : agg[c].pc = "rejected"}

\* C8, state part: with a rejected call nothing is returned, and a rejected
\* orchestrator carries the error of a rejected call
BatchFailState ==
  /\ Rejected # {} => orch.pc \in {"await", "rejected"} /\ orch.result = <<>>
  /\ orch.pc = "rejected" =>
       /\ orch.result = <<>>
       /\ \E c \in Rejected : orch.error = agg[c].error

\* C8, step part: once a call is rejected the next step of an awaiting
\* orchestrator is its rejection, no call that was not started is started, and
\* the rejected call sends nothing more
BatchFailStep ==
  Rejected # {} =>
    /\ orch.pc = "await" => orch'.pc = "rejected"
    /\ \A c \in CallIds : agg[c].pc = "idle" => agg'[c].pc = "idle"
    /\ \A c \in Rejected : agg'[c] = agg[c]

\* C8: processPullRequestsInBatches fails fast: a rejected aggregator call
\* rejects the orchestrator, no totals are returned, the call is not retried
\* and no call of a later group is started.
C8_BatchFailFast == [][BatchFailState' /\ BatchFailStep]_vars

\* C8 witness: batches of one; the first repository was summed, the call of the
\* second was rejected, the third was never started and nothing was returned
C8_Witness ==
  /\ orch.pc = "rejected"
  /\ batchSize = 1
  /\ Len(repos) = 3
  /\ orch.totalOpenPRs > 0
  /\ agg[2].pc = "rejected"
  /\ agg[3].pc = "idle"
  /\ orch.result = <<>>

(* -------------------- the generateBadges specification ---------------- *)
\* the repositories of the organization in a run of generateBadges
GenRepoNames == {"repo1", "repo2"}
\* the bytes the repository holds for a badge file an earlier run committed
OldBadge == File([label |-> <<"Total repositories">>, message |-> "old"])

\* the repository before the run: empty, prepared by hand with a README that
\* has the markers, or holding a badge of an earlier run and a plain README
GenRemotes ==
  { [p \in Paths |-> Absent],
    [p \in Paths |-> IF p = README THEN File(<<startMarker, endMarker>>) ELSE Absent],
    [p \in Paths |-> IF p = README THEN File(<<"text">>)
                     ELSE IF p = "badges/total-repositories.svg" THEN OldBadge
                     ELSE Absent] }

\* commit_badges and update_readme, each on or off; the REST client or
\* GITHUB_REPOSITORY may be missing
GenInputs ==
  { [numDays |-> d, now |-> <<3, 1>>, shouldCommitBadges |-> commit,
     shouldUpdateReadme |-> update, restClient |-> e[1], GITHUB_REPOSITORY |-> e[2]] :
      d \in {1, 2}, commit \in BOOLEAN, update \in BOOLEAN,
      e \in {<<TRUE, TRUE>>, <<FALSE, TRUE>>, <<TRUE, FALSE>>} }

InitGen ==
  /\ op = "generateBadges"
  /\ count = IdleCount
  /\ fetch = IdleFetch
  /\ agg = [c \in CallIds |-> IdleAgg]
  /\ orgRepos \in SeqsUpTo(GenRepoNames, MaxRepos)
  /\ repoPRs = BatchPRs
  /\ prFilterDate = NULL
  /\ repos = <<>>
  /\ batchSize = DefaultBatchSize
  /\ orch = IdleOrch
  /\ inputs \in GenInputs
  /\ mjs = IdleMjs
  /\ env = DefaultEnv
  /\ san = IdleSan
  /\ gen = IdleGen
  /\ files = [p \in BadgePaths |-> Absent]
  /\ badgeReferences = <<>>
  /\ remote \in GenRemotes
  /\ otherCommits = 0
  /\ cf = IdleCommit
  /\ patch = IdlePatch
  /\ io = <<>>
  /\ log = <<>>

NextGen ==
  \/ generateBadges_call
  \/ generateBadges_repos
  \/ generateBadges_prs
  \/ generateBadges_committed
  \/ generateBadges_readme
  \/ generateBadges_catch
  \/ runner_setOutput
  \/ \E k \in 0..MaxRepos : getRepositories_resolve(k)
  \/ \E e \in TransportErrors : getRepositories_reject(e)
  \/ \E c \in CallIds, k \in 0..MaxPRs : getPullRequestsCount_resolve(c, k)
  \/ \E c \in CallIds, e \in TransportErrors : getPullRequestsCount_reject(c, e)
  \/ commitFile_read
  \/ commitFile_write
  \/ updateReadmeWithBadges_read
  \/ updateReadmeWithBadges_committed

SpecGen == InitGen /\ [][NextGen]_vars

(* ------------------- the specification of src/index.js ---------------- *)
\* argv and the action inputs: each of organization and token given on the
\* command line, as an action input, or not at all
BootEnvs ==
  { [argv |-> [organization |-> ao, token |-> at],
     getInput |-> [organization |-> go, token |-> gt]] :
      ao \in {JsUndefined, JsString("x")}, at \in {JsUndefined, JsString("x")},
      go \in {JsString(""), JsString("x")}, gt \in {JsString(""), JsString("x")} }

InitBoot ==
  /\ op = "index.js"
  /\ count = IdleCount
  /\ fetch = IdleFetch
  /\ agg = [c \in CallIds |-> IdleAgg]
  /\ orgRepos \in SeqsUpTo({"repo1"}, MaxRepos)
  /\ repoPRs = BatchPRs
  /\ prFilterDate = NULL
  /\ repos = <<>>
  /\ batchSize = DefaultBatchSize
  /\ orch = IdleOrch
  /\ inputs = [DefaultInputs EXCEPT !.numDays = 1, !.now = <<3, 1>>,
                                    !.shouldCommitBadges = TRUE,
                                    !.shouldUpdateReadme = TRUE,
                                    !.GITHUB_REPOSITORY = TRUE]
  /\ mjs = IdleMjs
  /\ env \in BootEnvs
  /\ san = IdleSan
  /\ gen = IdleGen
  /\ files = [p \in BadgePaths |-> Absent]
  /\ badgeReferences = <<>>
  /\ remote = [p \in Paths |-> IF p = README THEN File(<<startMarker, endMarker>>) ELSE Absent]
  /\ otherCommits = 0
  /\ cf = IdleCommit
  /\ patch = IdlePatch
  /\ io = <<>>
  /\ log = <<>>

NextBoot == index_initialize \/ NextGen

SpecBoot == InitBoot /\ [][NextBoot]_vars

(* ------------------ the specification of sanitizeFilename ------------- *)
\* the labels of the tests
Label_TotalRepositories ==
  <<"T","o","t","a","l"," ","r","e","p","o","s","i","t","o","r","i","e","s">>
Label_TestLabelName ==
  <<"T","e","s","t",":"," ","L","a","b","e","l","/","N","a","m","e">>
Label_MyFile == <<"M","y","F","i","l","e">>

\* the characters of the labels that are enumerated
LabelChars == {"T", "a", "-", " ", "\t", ":", "/"}

Labels ==
  SeqsUpTo(LabelChars, MaxLabel)
    \cup {Label_TotalRepositories, Label_TestLabelName, Label_MyFile}

InitSan ==
  /\ op = "sanitizeFilename"
  /\ count = IdleCount
  /\ fetch = IdleFetch
  /\ agg = [c \in CallIds |-> IdleAgg]
  /\ orgRepos = <<>>
  /\ repoPRs = NoPRs
  /\ prFilterDate = NULL
  /\ repos = <<>>
  /\ batchSize = DefaultBatchSize
  /\ orch = IdleOrch
  /\ IdlePatchSide
  /\ mjs = IdleMjs
  /\ env = DefaultEnv
  /\ inputs = DefaultInputs
  /\ gen = IdleGen
  /\ files = [p \in BadgePaths |-> Absent]
  /\ badgeReferences = <<>>
  /\ san \in {[IdleSan EXCEPT !.label = l] : l \in Labels}

NextSan == sanitizeFilename_call \/ sanitizeFilename_again

SpecSan == InitSan /\ [][NextSan]_vars

(* ==================== properties: the README patcher ================== *)
\* the contents-API writes to the README, as indices into io
ReadmeWrites ==
  {i \in 1..Len(io) : io[i].call = "createOrUpdateFileContents" /\ io[i].path = README}

\* C4: the write updateReadmeWithBadges issues carries the sha of the README
\* content the new text was computed from, so a write the backend accepts
\* replaces exactly that content and never another writer's commit.
C4_WriteCarriesReadSha ==
  \A i \in ReadmeWrites :
    /\ io[i].sha = <<patch.existing[1].sha>>
    /\ io[i].status \in {200, 201} => io[i].before = File(patch.existing[1].content)

(* ----------------------- the index.mjs specification ------------------ *)
\* the days input and the clock of a run of index.mjs
MjsInputs == {[DefaultInputs EXCEPT !.numDays = d, !.now = <<3, 1>>] : d \in {1, 2}}

InitMjs ==
  /\ op = "index.mjs"
  /\ count = IdleCount
  /\ fetch = IdleFetch
  /\ agg = [c \in CallIds |-> IdleAgg]
  /\ orgRepos \in SeqsUpTo(RepoNames, MaxRepos)
  /\ repoPRs = BatchPRs
  /\ prFilterDate = NULL
  /\ repos = <<>>
  /\ batchSize = DefaultBatchSize
  /\ orch = IdleOrch
  /\ IdlePatchSide
  /\ inputs \in MjsInputs
  /\ mjs = IdleMjs
  /\ env = DefaultEnv
  /\ san = IdleSan
  /\ gen = IdleGen
  /\ files = [p \in BadgePaths |-> Absent]
  /\ badgeReferences = <<>>

NextMjs ==
  \/ mjs_start
  \/ mjs_count_resolve
  \/ \E e \in TransportErrors : mjs_count_reject(e)
  \/ \E k \in 0..MaxRepos : mjs_repos_resolve(k)
  \/ \E e \in TransportErrors : mjs_repos_reject(e)
  \/ \E k \in 0..MaxPRs : mjs_prs_resolve(k)
  \/ \E e \in TransportErrors : mjs_prs_reject(e)
  \/ mjs_exit

SpecMjs == InitMjs /\ [][NextMjs]_vars

\* the position of the first token t after position s, 0 when there is none
FirstAfter(c, t, s) ==
  IF \E j \in (s + 1)..Len(c) : c[j] = t
  THEN CHOOSE j \in (s + 1)..Len(c) : c[j] = t /\ \A l \in (s + 1)..(j - 1) : c[l] # t
  ELSE 0

\* the regions of a README: from a start marker through the next end marker,
\* taken from the left, a region never starting inside an earlier one
Regions(c) ==
  LET cand == {<<s, FirstAfter(c, endMarker, s)>> :
                 s \in {i \in 1..Len(c) : c[i] = startMarker /\ FirstAfter(c, endMarker, i) # 0}}
  IN CHOOSE M \in SUBSET cand :
       M = {p \in cand : ~\E q \in M : q[1] < p[1] /\ p[1] < q[2]}

\* the README with every region replaced by start marker, newline, the
\* replacement, newline, end marker
PatchedReadme(c, refs) ==
  LET piece(i) ==
        IF \E q \in Regions(c) : q[1] = i
        THEN <<startMarker, "n">> \o refs \o <<"n", endMarker>>
        ELSE IF \E q \in Regions(c) : q[1] < i /\ i <= q[2] THEN <<>>
        ELSE <<c[i]>>
  IN Flatten([i \in 1..Len(c) |-> piece(i)])

LacksMarker(c) ==
  \/ \A i \in 1..Len(c) : c[i] # startMarker
  \/ \A i \in 1..Len(c) : c[i] # endMarker

\* C14: when the README updateReadmeWithBadges fetched lacks the markers (both,
\* or one of the two), it returns null, raises no error and issues no
\* content-write call: the remote README is left as it was.
C14_NoMarkersSkipped ==
  patch.existing # <<>> /\ LacksMarker(patch.existing[1].content) =>
    /\ patch.pc = "returned"
    /\ patch.result = <<"null">>
    /\ patch.error = <<>>
    /\ cf = IdleCommit
    /\ \A i \in 1..Len(io) : io[i].call = "getContent"
    /\ \A i \in 1..Len(log) : log[i] # "core.error"
    /\ otherCommits = 0 => remote[README] = File(patch.existing[1].content)

\* C14 witness: a README with the start marker only was fetched and skipped
C14_Witness ==
  /\ patch.pc = "returned"
  /\ patch.existing # <<>>
  /\ patch.existing[1].content = <<startMarker, "text">>
  /\ patch.newContent = <<>>
  /\ patch.result = <<"null">>
  /\ Len(io) = 1

\* the step in which updateReadmeWithBadges receives its README
PatchReadStep == patch.pc = "read" /\ patch'.pc # "read"

\* that step ends the call with null: no commit is started, no write follows
PatchReturnsNull ==
  /\ patch'.pc = "returned"
  /\ patch'.result = <<"null">>
  /\ patch'.error = <<>>
  /\ cf' = cf
  /\ Len(io') = Len(io) + 1
  /\ io'[Len(io')].call = "getContent"
  /\ remote' = remote

\* C15: if the patched text is identical to the fetched text no write is
\* issued and null is returned; so an update run again with the same
\* replacement on the content an earlier update wrote issues no second write.
C15_Idempotent ==
  [][PatchReadStep /\ patch'.existing # <<>> =>
       LET c == patch'.existing[1].content IN
       /\ PatchedReadme(c, badgeReferences) = c => PatchReturnsNull
       /\ (\E i \in AcceptedReadmeWrites : io[i].content = c) => PatchReturnsNull]_vars

\* C15 witness: the update was committed, run again on the content it wrote,
\* and returned null without a second write
C15_Witness ==
  /\ patch.pc = "returned"
  /\ patch.newContent = <<>>
  /\ patch.result = <<"null">>
  /\ patch.existing # <<>>
  /\ \E i \in AcceptedReadmeWrites : io[i].content = patch.existing[1].content
  /\ Cardinality(ReadmeWrites) = 1
  /\ io[Len(io)].call = "getContent"

\* getFileContent at its boundary: 404 is null, any other failure is thrown
\* again as it is, an answer is the decoded content with its sha
FileReadBoundary ==
  \A doc \in Docs \cup {<<>>} : \A file \in {Absent, File(doc)} :
    \A answer \in GetContentAnswers(file) :
      GetFileContent(answer) =
        IF answer.ok THEN <<"value", [content |-> file.content, sha |-> Sha(file.content)]>>
        ELSE IF answer.error.status = 404 THEN <<"null">>
        ELSE <<"throw", answer.error>>

\* the status the README fetch of that step was answered with
PatchReadStatus == io'[Len(io')].status

\* C16: getFileContent returns null on a 404 and throws every other failure
\* again; updateReadmeWithBadges returns null without a write when the README
\* fetch is a 404, and logs and rejects with that error, without a write, when
\* the fetch fails with another status.
C16_FileReadBoundary ==
  [][/\ FileReadBoundary
     /\ PatchReadStep =>
          /\ PatchReadStatus = 404 => PatchReturnsNull /\ patch'.existing = <<>>
          /\ PatchReadStatus \notin {200, 404} =>
               /\ patch'.pc = "rejected"
               /\ patch'.error = <<[status |-> PatchReadStatus]>>
               /\ log' = Append(log, "core.error")
               /\ cf' = cf
               /\ Len(io') = Len(io) + 1
               /\ remote' = remote
     /\ Len(io') > Len(io) /\ io'[Len(io')].call = "createOrUpdateFileContents" =>
          patch.pc = "commit" /\ patch.existing # <<>>]_vars

\* C16 witness: the README fetch failed with status 500 and the call rejected
\* with that error after the one request
C16_Witness ==
  /\ patch.pc = "rejected"
  /\ patch.error = <<[status |-> 500]>>
  /\ Len(io) = 1
  /\ io[1].status = 500
  /\ log = <<"core.error">>

(* ===================== properties: generateBadges ===================== *)
\* a step inside generateBadges has failed: the repository fetch, a
\* pull-request fetch, a badge file write, a commit or the README update
GenFailure ==
  \/ fetch.pc = "rejected"
  \/ \E c \in CallIds : agg[c].pc = "rejected"
  \/ gen.fsError
  \/ cf.pc = "rejected"
  \/ patch.pc = "rejected"

\* the log of a run that exited: the error, then the exit, and nothing after
ExitLogged ==
  /\ Len(log) >= 2
  /\ log[Len(log) - 1] = "core.error"
  /\ log[Len(log)] = "process.exit(1)"
  /\ \A i \in 1..(Len(log) - 1) : log[i] # "process.exit(1)"

GenFailState ==
  GenFailure =>
    /\ gen.pc \notin {"returned", "done"}
    /\ gen.result = <<>>
    /\ gen.output = <<>>
    /\ \A i \in 1..Len(log) : log[i] # "core.setOutput"
    /\ gen.pc = "exited" => ExitLogged
    /\ gen.pc # "exited" =>
         ENABLED (generateBadges_catch \/ updateReadmeWithBadges_committed)

\* after a failure the only steps are the rethrow of updateReadmeWithBadges and
\* the catch block of generateBadges; after the exit there is no step
GenFailStep ==
  /\ gen.pc # "exited"
  /\ GenFailure =>
       \/ gen'.pc = "exited"
       \/ patch.pc = "commit" /\ cf.pc = "rejected" /\ patch'.pc = "rejected"

\* C10: when a step inside generateBadges (src/index.js) fails, the error is
\* logged through core.error and then process.exit(1) is called, in that
\* order; the 'badges' output is never set and no badge list is returned.
C10_FailureExits == []GenFailState /\ [][GenFailStep]_vars

\* C10 witness: the badges were saved and two of them committed, the commit of
\* the third failed, and the run has exited
C10_Witness ==
  /\ gen.pc = "exited"
  /\ gen.k = 3
  /\ cf.caller = "generateBadges"
  /\ cf.pc = "rejected"
  /\ \A p \in BadgePaths : files[p].exists
  /\ \E p \in BadgePaths : remote[p] = files[p]

(* ======================== properties: index.mjs ======================= *)
\* a transport request of the run was rejected
MjsTransportFailure ==
  \/ count.rejections # <<>>
  \/ fetch.rejections # <<>>
  \/ \E c \in CallIds : agg[c].rejections # <<>>

\* C11: in src/index.mjs a transport failure in either branch of the
\* Promise.all makes the run end with a non-zero exit status, after the error
\* has been logged.
C11_MjsFailureExitsNonZero ==
  mjs.pc = "exited" /\ MjsTransportFailure =>
    /\ \E i \in 1..Len(log) : log[i] = "console.error"
    /\ mjs.exitCode # <<0>>

\* C12: in src/index.mjs, when an aggregator call returns, total is the number
\* of the repository's pull requests created at or after the cutoff the run
\* computed, and merged is the number in state MERGED merged at or after it,
\* pull requests of the cutoff's own day at or after the cutoff instant included.
C12_MjsWindowCounts ==
  \A c \in CallIds :
    mjs.pc # "idle" /\ agg[c].pc = "returned" =>
      LET prs == repoPRs[agg[c].repo] IN
      /\ agg[c].date = mjs.prFilterDate
      /\ agg[c].result[1].total =
           Cardinality({i \in 1..Len(prs) : AtOrAfter(prs[i].createdAt, agg[c].date)})
      /\ agg[c].result[1].merged =
           Cardinality({i \in 1..Len(prs) :
                          /\ prs[i].state = "MERGED"
                          /\ prs[i].mergedAt # NULL
                          /\ AtOrAfter(prs[i].mergedAt, agg[c].date)})

(* ========================= properties: commitFile ===================== *)
\* the contents-API requests for a path, as indices into io
ReadsOf(p) == {i \in 1..Len(io) : io[i].call = "getContent" /\ io[i].path = p}
WritesOf(p) ==
  {i \in 1..Len(io) : io[i].call = "createOrUpdateFileContents" /\ io[i].path = p}

\* a write and the read of commitFile before it: the write carries a sha
\* exactly when the read found the file, and then the sha of the file read
ShaOfRead(r, w) ==
  /\ r.status \in {200, 404}
  /\ r.status = 200 => w.sha = <<Sha(w.before.content)>> /\ w.before.exists
  /\ r.status = 404 => w.sha = <<>> /\ ~w.before.exists

\* C17: a commitFile call reads the target path once and then writes it once;
\* the write carries a sha if and only if the read found the file, and then
\* the sha that read returned; after a 404 the write carries no sha.
C17_ReadThenWrite ==
  /\ \A p \in BadgePaths :
       /\ Cardinality(ReadsOf(p)) <= 1
       /\ Cardinality(WritesOf(p)) <= 1
       /\ cf.path = p /\ cf.pc = "write" =>
            Cardinality(ReadsOf(p)) = 1 /\ WritesOf(p) = {}
       /\ cf.path = p /\ cf.pc = "returned" =>
            Cardinality(ReadsOf(p)) = 1 /\ Cardinality(WritesOf(p)) = 1
  /\ \A p \in Paths : \A w \in WritesOf(p) :
       /\ w > 1
       /\ w - 1 \in ReadsOf(p)
       /\ ShaOfRead(io[w - 1], io[w])

\* C17 witness: one badge file existed and was updated with its sha, another
\* did not exist and was created without a sha
C17_Witness ==
  /\ \E p \in BadgePaths : \E w \in WritesOf(p) :
       io[w].status = 200 /\ io[w].sha # <<>> /\ io[w - 1].status = 200
  /\ \E p \in BadgePaths : \E w \in WritesOf(p) :
       io[w].status = 201 /\ io[w].sha = <<>> /\ io[w - 1].status = 404

\* the three badge references of a run, as the claim lists them
ThreeReferences(b, n) ==
  /\ Len(b) = 3
  /\ b[1].alt = <<"Total repositories">>
  /\ b[2].alt = <<"PRs created in last", n, "days">>
  /\ b[3].alt = <<"Merged PRs in last", n, "days">>
  /\ \A i \in 1..3 : b[i].src \in BadgePaths /\ files[b[i].src].exists
  /\ \A i, j \in 1..3 : i # j => b[i].src # b[j].src
  /\ files[b[1].src].content.message = ToString(Len(orgRepos))

\* how often core.setOutput was called
SetOutputCalls == Cardinality({i \in 1..Len(log) : log[i] = "core.setOutput"})

\* C18: a successful run of generateBadges (src/index.js), also for an
\* organization without repositories, returns exactly three badge references
\* in the order total repositories, PRs created, PRs merged; the output
\* 'badges' is set once, after all three were generated, to the three
\* references joined by single spaces.
C18_ThreeBadges ==
  /\ gen.pc \in {"returned", "done"} => ThreeReferences(gen.result[1], inputs.numDays)
  /\ gen.pc = "done" =>
       /\ SetOutputCalls = 1
       /\ log[Len(log)] = "core.setOutput"
       /\ gen.output = <<ToString(<<gen.result[1][1], " ", gen.result[1][2], " ",
                                     gen.result[1][3]>>)>>
  /\ gen.pc # "done" => SetOutputCalls = 0 /\ gen.output = <<>>

\* C18 witness: the organization has no repositories and the output was set
C18_Witness ==
  /\ gen.pc = "done"
  /\ orgRepos = <<>>
  /\ gen.repoCount = 0
  /\ Len(gen.result[1]) = 3
  /\ gen.output # <<>>

(* ========================= properties: start-up ======================= *)
\* the value of an input as the run sees it: the command line, else the action input
Given(name) ==
  IF env.argv[name] = JsString("x") THEN env.argv[name] ELSE env.getInput[name]

\* an input is absent: empty, null or undefined
AbsentInput(v) == v \in {JsUndefined, JsNull, JsString("")}

\* no GraphQL and no REST request was issued
NoRequest ==
  /\ count.requests = 0
  /\ fetch.requests = <<>>
  /\ \A c \in CallIds : agg[c].requests = <<>>
  /\ io = <<>>

\* C19: when the organization or the token is absent (empty, null or
\* undefined) at start-up, validateRequiredInput throws '<label> is required'
\* synchronously and no GraphQL or REST request is issued in that run; an
\* input that is present is returned unchanged.
C19_MissingConfiguration ==
  /\ \A v \in InputValues : \A label \in {"organization", "token"} :
       validateRequiredInput(v, label) =
         IF AbsentInput(v) THEN <<"throw", <<label, "is required">>>> ELSE <<"return", v>>
  /\ AbsentInput(Given("organization")) \/ AbsentInput(Given("token")) =>
       /\ gen.pc \in {"idle", "crashed"}
       /\ NoRequest
       /\ gen.pc = "crashed" =>
            gen.error = << <<IF AbsentInput(Given("organization"))
                             THEN "organization" ELSE "token", "is required">> >>
  /\ gen.pc \notin {"idle", "crashed"} =>
       /\ gen.organization = <<Given("organization")>>
       /\ gen.token = <<Given("token")>>

\* C19 witness: the organization is given, the token is not: the start-up has
\* thrown 'token is required' and nothing was requested
C19_Witness ==
  /\ gen.pc = "crashed"
  /\ gen.error = << <<"token", "is required">> >>
  /\ ~AbsentInput(Given("organization"))
  /\ NoRequest

(* ===================== properties: remote side effects ================ *)
\* C20: with commit_badges false a run of generateBadges issues no repository
\* content read and no content write at all; the README is read or written
\* only when update_readme and commit_badges are both true.
C20_SideEffectsGated ==
  /\ ~inputs.shouldCommitBadges =>
       /\ io = <<>>
       /\ cf.pc = "idle"
       /\ patch.pc = "idle"
       /\ remote \in GenRemotes
  /\ ReadsOf(README) \cup WritesOf(README) # {} \/ patch.pc # "idle" =>
       inputs.shouldUpdateReadme /\ inputs.shouldCommitBadges

\* C20 witness: update_readme is true and commit_badges false, a REST client
\* and GITHUB_REPOSITORY are there and the README has both markers: the run
\* has saved its badges and set its output, and nothing was read or written
C20_Witness ==
  /\ gen.pc = "done"
  /\ inputs.shouldUpdateReadme /\ ~inputs.shouldCommitBadges
  /\ inputs.restClient /\ inputs.GITHUB_REPOSITORY
  /\ remote[README] = File(<<startMarker, endMarker>>)
  /\ \A i \in 1..3 : files[gen.badgeFiles[i]].exists
  /\ io = <<>>

(* ====================== properties: local side effects ================ *)
\* C21: a run of generateBadges with commit_badges and update_readme both
\* false writes no file to the local file system.
C21_NoLocalWriteByDefault ==
  ~inputs.shouldCommitBadges /\ ~inputs.shouldUpdateReadme =>
     \A p \in BadgePaths : ~files[p].exists

(* ======================== properties: termination ===================== *)
\* an iteration of the loop of processPullRequestsInBatches: Promise.all of a
\* batch was fulfilled and the loop goes on with the next batch
LoopIteration == orch.pc = "await" /\ orch'.pc = "await" /\ orch' # orch

\* C22: processPullRequestsInBatches returns or rejects for every finite
\* repository list and every batchSize >= 0, because the loop makes progress
\* on every iteration: i grows, so the repositories left to process
\* (repos.length - i) decrease whenever the loop goes round.
C22_BatchesTerminate ==
  [][LoopIteration => Len(repos) - orch'.i < Len(repos) - orch.i]_vars

(* ========================= properties: the cutoff ===================== *)
\* now minus N days, taken on the inputs of the run
RunCutoff == <<inputs.now[1] - inputs.numDays, inputs.now[2]>>

\* the cutoff of a run: unset until the repository list is there, and every
\* aggregator call that was made got the one cutoff of the run
CutoffOfRun ==
  /\ gen.pc \in {"idle", "repos"} =>
       /\ gen.prFilterDate = IdleGen.prFilterDate
       /\ \A c \in CallIds : agg[c].pc = "idle"
  /\ \A c \in CallIds : agg[c].pc # "idle" =>
       /\ fetch.pc = "returned"
       /\ agg[c].date = gen.prFilterDate
       /\ agg[c].date = RunCutoff

\* once set, the cutoff is never assigned again
CutoffKept == gen.prFilterDate # IdleGen.prFilterDate => gen'.prFilterDate = gen.prFilterDate

KeptPositions(l) ==
  {i \in 1..Len(l) : l[i] \notin Whitespace \/ i = 1 \/ l[i - 1] \notin Whitespace}

\* the k-th kept position
KeptAt(l, k) ==
  CHOOSE i \in KeptPositions(l) : Cardinality({j \in KeptPositions(l) : j <= i}) = k

\* one dash for an unsafe character and for a run of whitespace, the lower-case
\* letter for an upper-case one, the character itself otherwise
SanitizedChar(c) ==
  IF c \in Unsafe \cup Whitespace THEN "-"
  ELSE CASE c = "T" -> "t" [] c = "L" -> "l" [] c = "N" -> "n"
         [] c = "M" -> "m" [] c = "F" -> "f" [] OTHER -> c

\* C24: the result of sanitizeFilename holds no upper-case letter, no
\* whitespace and none of < > : " / \ | ? *; each unsafe character is replaced
\* by one dash and each maximal run of whitespace by one dash ('Total
\* repositories' gives 'total-repositories', 'Test: Label/Name' gives
\* 'test--label-name'); sanitizing a sanitized name returns it unchanged.
C24_SanitizeFilename ==
  /\ san.pc # "idle" =>
       /\ \A i \in 1..Len(san.result) :
            san.result[i] \notin UpperCaseLetters \cup Whitespace \cup Unsafe
       /\ Len(san.result) = Cardinality(KeptPositions(san.label))
       /\ \A k \in 1..Len(san.result) :
            san.result[k] = SanitizedChar(san.label[KeptAt(san.label, k)])
       /\ san.label = Label_TotalRepositories =>
            san.result = <<"t","o","t","a","l","-","r","e","p","o","s","i","t","o","r","i","e","s">>
       /\ san.label = Label_TestLabelName =>
            san.result = <<"t","e","s","t","-","-","l","a","b","e","l","-","n","a","m","e">>
  /\ san.pc = "resanitized" => san.again = san.result

\* C24 witness: a label with an upper-case letter, an unsafe character and a
\* run of two whitespace characters was sanitized, and its name sanitized again
C24_Witness ==
  /\ san.pc = "resanitized"
  /\ san.label = <<"T", ":", " ", "\t">>
  /\ san.result = <<"t", "-", "-">>
  /\ san.again = <<"t", "-", "-">>

(* =============== properties: concurrent aggregator calls ============== *)
\* the counts of a list of pull requests for a cutoff, on the timestamps
CountsOf(prs, date) ==
  [total |-> Cardinality({i \in 1..Len(prs) : AtOrAfter(prs[i].createdAt, date)}),
   merged |-> Cardinality({i \in 1..Len(prs) :
                             /\ prs[i].state = "MERGED"
                             /\ prs[i].mergedAt # NULL
                             /\ AtOrAfter(prs[i].mergedAt, date)})]

\* C25, state part: the counters and the cursor of a call follow from the
\* pages of its own repository alone, and its result is that of a call alone
OwnPagesOnly ==
  \A c \in 1..Len(repos) : agg[c].pc # "idle" =>
    LET own == repoPRs[repos[c]]
        got == Flatten(agg[c].pages)
    IN /\ agg[c].repo = repos[c]
       /\ got = SubSeq(own, 1, Len(got))
       /\ agg[c].total = CountsOf(got, prFilterDate).total
       /\ agg[c].merged = CountsOf(got, prFilterDate).merged
       /\ agg[c].pc = "await" => CursorPos(agg[c].requests[Len(agg[c].requests)]) = Len(got)
       /\ agg[c].pc = "returned" => agg[c].result = <<CountsOf(own, prFilterDate)>>

\* C25, step part: a step of one call in flight leaves every other call in
\* flight as it was
OwnStateOnly ==
  \A c, d \in CallIds :
    (c # d /\ agg[c].pc = "await" /\ agg[d].pc = "await" /\ agg'[c] # agg[c])
      => agg'[d] = agg[d]

\* C25: for every interleaving of the page responses of the calls of one
\* group, the {total, merged} of each repository depends only on that
\* repository's own pages and equals what the call returns when run alone.
C25_CallsIndependent == []OwnPagesOnly /\ [][OwnStateOnly]_vars

\* C25 witness: two calls of one group interleave: the call of repo1 has its
\* first page of two and is waiting for the second, the call of repo2, started
\* with it, has already returned its own count
C25_Witness ==
  /\ batchSize >= 2
  /\ Len(repos) >= 2 /\ repos[1] = "repo1" /\ repos[2] = "repo2"
  /\ prFilterDate = <<2, 0>>
  /\ agg[1].pc = "await" /\ Len(agg[1].pages) = 1 /\ agg[1].total = 1
  /\ agg[2].pc = "returned" /\ agg[2].result = <<[total |-> 1, merged |-> 0]>>

\* C26: in src/index.mjs, in every completion order of the requests of the two
\* branches of the Promise.all, the list printed holds exactly three URLs in
\* the order Total repositories, Open PRs in last N days, Merged PRs in last
\* N days.
C26_MjsUrlOrder ==
  mjs.all = "fulfilled" =>
    /\ Len(mjs.badgeURLs) = 3
    /\ mjs.badgeURLs[1].label = <<"Total repositories">>
    /\ mjs.badgeURLs[2].label = <<"Open PRs in last", inputs.numDays, "days">>
    /\ mjs.badgeURLs[3].label = <<"Merged PRs in last", inputs.numDays, "days">>

(* ======================= properties: cursor threading ================= *)
\* the j-th response of a fetch over a list: what the server answered to the
\* j-th request, with the nodes that were received
ResponseOf(f, list, j) == ServerPage(list, f.requests[j], Len(f.pages[j]))

\* the requests of one fetch: the first without a cursor, each later one with
\* the endCursor of the response before it, which reported hasNextPage; one
\* request at most is outstanding, and only while the fetch is waiting
CursorThreaded(f, list) ==
  /\ f.pc # "idle" => f.requests # <<>> /\ f.requests[1] = UNDEFINED
  /\ f.pc = "idle" => f.requests = <<>>
  /\ \A j \in 2..Len(f.requests) :
       /\ j - 1 <= Len(f.pages)
       /\ ResponseOf(f, list, j - 1).pageInfo.hasNextPage
       /\ f.requests[j] = ResponseOf(f, list, j - 1).pageInfo.endCursor
  /\ Len(f.requests) - Len(f.pages) - Len(f.rejections) = IF f.pc = "await" THEN 1 ELSE 0
  /\ f.pc = "returned" =>
       ~ResponseOf(f, list, Len(f.requests)).pageInfo.hasNextPage

\* C27: in getRepositories and getPullRequestsCount the first request is sent
\* with an undefined cursor, every later request with exactly the endCursor of
\* the response before it, a request is sent only if that response reported
\* hasNextPage = true, and the requests of a fetch are strictly sequential.
C27_CursorThreading ==
  /\ CursorThreaded(fetch, orgRepos)
  /\ CursorThreaded(agg[1], repoPRs["repo1"])

\* C27 witness: getRepositories returned after three requests, the second and
\* third sent with the cursors of the first and second response
C27_Witness ==
  /\ fetch.pc = "returned"
  /\ fetch.requests = <<UNDEFINED, 1, 2>>
  /\ Len(fetch.pages) = 3
  /\ fetch.flags = <<TRUE, TRUE, FALSE>>

(* ==================== properties: remote write ordering =============== *)
\* the remote files of a run in the order of the claim: the three badge files
\* in badge order, then the README
WriteOrder ==
  <<"badges/total-repositories.svg", "badges/prs-created.svg",
    "badges/merged-prs.svg", README>>

OrderOf(p) == CHOOSE n \in 1..Len(WriteOrder) : WriteOrder[n] = p

\* a content call that failed: a read answered neither 200 nor 404, or a
\* write answered neither 200 nor 201
IoFailed(e) ==
  IF e.call = "getContent" THEN e.status \notin {200, 404}
  ELSE e.status \notin {200, 201}

\* a write that succeeded
IoCommitted(e) == e.call = "createOrUpdateFileContents" /\ e.status \in {200, 201}

\* C28: with commit_badges and update_readme enabled the three badge files
\* are committed one at a time in badge order, each commit completing before
\* the next starts, and the README update starts only after all three badge
\* commits have succeeded; when a badge commit fails no later badge commit
\* and no README update is attempted and the run ends through the failure exit.
C28_WriteOrdering ==
  /\ \A i, j \in 1..Len(io) : i < j => OrderOf(io[i].path) <= OrderOf(io[j].path)
  /\ \A j \in 1..Len(io) : OrderOf(io[j].path) > 1 =>
       \E i \in 1..(j - 1) :
         /\ io[i].path = WriteOrder[OrderOf(io[j].path) - 1]
         /\ IoCommitted(io[i])
  /\ cf.pc \in {"read", "write"} => gen.pc \in {"commit", "readme"}
  /\ gen.pc = "commit" => cf.path = WriteOrder[gen.k] /\ patch.pc = "idle"
  /\ \A i \in 1..Len(io) : IoFailed(io[i]) /\ io[i].path \in BadgePaths =>
       /\ i = Len(io)
       /\ patch.pc = "idle"
       /\ cf.pc = "rejected"
       /\ gen.pc = "exited" \/ (gen.pc = "commit" /\ ENABLED generateBadges_catch)
       /\ gen.pc = "exited" => ExitLogged

\* C28 witness: the three badge files were committed in badge order, then the
\* README was read by updateReadmeWithBadges, read again by commitFile and
\* committed, and the run returned
C28_Witness ==
  /\ inputs.shouldCommitBadges /\ inputs.shouldUpdateReadme
  /\ gen.pc = "done"
  /\ Len(io) = 9
  /\ \A n \in 1..3 :
       /\ io[2 * n - 1].call = "getContent" /\ io[2 * n - 1].path = WriteOrder[n]
       /\ IoCommitted(io[2 * n]) /\ io[2 * n].path = WriteOrder[n]
  /\ io[7].call = "getContent" /\ io[7].path = README
  /\ io[8].call = "getContent" /\ io[8].path = README
  /\ IoCommitted(io[9]) /\ io[9].path = README

(* ===================== properties: the repository count =============== *)
\* the names the paginated fetch received, page after page
NamesFetched == Flatten(fetch.pages)

\* C29, state part: the number on the 'Total repositories' badge is the number
\* of names the fetch returned, and on a successful run every listed
\* repository, and nothing else, had its aggregator call
CountIsListed ==
  /\ files["badges/total-repositories.svg"].exists =>
       /\ fetch.pc = "returned"
       /\ fetch.result = <<NamesFetched>>
       /\ files["badges/total-repositories.svg"].content.label = <<"Total repositories">>
       /\ files["badges/total-repositories.svg"].content.message = ToString(Len(NamesFetched))
  /\ gen.pc \in {"returned", "done"} =>
       /\ files["badges/total-repositories.svg"].exists
       /\ \A c \in CallIds :
            IF c <= Len(NamesFetched)
            THEN agg[c].pc = "returned" /\ agg[c].repo = NamesFetched[c]
            ELSE agg[c].pc = "idle"

\* C29, step part: an aggregator call is made where none was made before and
\* a call that has returned is not made again
CalledOnce ==
  \A c \in CallIds :
    /\ agg'[c].pc # "idle" /\ agg[c].pc = "idle" =>
         gen.k = c - 1 /\ gen'.k = c /\ agg'[c].requests = <<UNDEFINED>>
    /\ agg[c].pc = "returned" => agg'[c] = agg[c]

\* C29: in generateBadges of src/index.js the value of the 'Total
\* repositories' badge always equals the number of names returned by the
\* paginated getRepositories fetch, which on a successful run equals the number
\* of repositories whose pull requests were aggregated: one getPullRequestsCount
\* invocation per listed repository, none skipped, none repeated.
C29_CountMatchesListing == []CountIsListed /\ [][CalledOnce]_vars

\* C29 witness: the same name was listed twice among three, in two pages, and
\* the run returned: the badge shows 3 and three calls were made
C29_Witness ==
  /\ gen.pc = "done"
  /\ orgRepos = <<"repo1", "repo2", "repo1">>
  /\ Len(fetch.pages) = 2
  /\ files["badges/total-repositories.svg"].content.message = "3"
  /\ \A c \in 1..3 : agg[c].pc = "returned"

(* ================= properties: missing GITHUB_REPOSITORY ============== *)
\* the run is in or past the commit section of generateBadges
PastBadgeLoop == gen.pc \in {"commit", "readme", "returned", "done"}

\* C30: generateBadges (src/index.js) with commit_badges true and no
\* GITHUB_REPOSITORY in the environment issues no repository content read or
\* write, skips the README update even when update_readme is true, does not
\* fail, and still returns the three badge references.
C30_NoRepositoryContext ==
  inputs.shouldCommitBadges /\ ~inputs.GITHUB_REPOSITORY =>
    /\ io = <<>>
    /\ cf.pc = "idle"
    /\ patch.pc = "idle"
    /\ remote \in GenRemotes
    /\ gen.pc \notin {"commit", "readme"}
    /\ gen.pc = "exited" =>
         \/ fetch.pc = "rejected"
         \/ \E c \in CallIds : agg[c].pc = "rejected"
         \/ gen.fsError
    /\ PastBadgeLoop =>
         /\ Len(gen.result[1]) = 3
         /\ \A i \in 1..3 : files[gen.result[1][i].src].exists
         /\ \A i \in 1..Len(log) : log[i] \notin {"core.error", "process.exit(1)"}
         /\ inputs.restClient => \E i \in 1..Len(log) : log[i] = "core.warning"

\* C30 witness: commit_badges and update_readme are true, GITHUB_REPOSITORY is
\* not set and the README has both markers: the run returned its three
\* references after the warning and no content call was made
C30_Witness ==
  /\ inputs.shouldCommitBadges /\ inputs.shouldUpdateReadme
  /\ inputs.restClient /\ ~inputs.GITHUB_REPOSITORY
  /\ remote[README] = File(<<startMarker, endMarker>>)
  /\ gen.pc = "done"
  /\ Len(gen.result[1]) = 3
  /\ gen.output # <<>>
  /\ \E i \in 1..Len(log) : log[i] = "core.warning"
  /\ io = <<>>

====
